---- MODULE Spec2Model ----
(***************************************************************************)
(* State-machine model of the RhymeTime browser extension.                 *)
(*                                                                         *)
(*   SpecGemini  GeminiAPI (src/gemini.js): transformToRhyme and the       *)
(*               bounded retry of callGeminiAPI.                           *)
(*   SpecRelay   the background script (src/unnamed/part_000): the         *)
(*               generateRhyme message handler relaying to the proxy.      *)
(*   SpecAudio   AudioGenerator (src/audiogenerator.js): generateAudio,    *)
(*               its cache, the backend dispatch and the fallback.         *)
(*   SpecPopup   RhymeTimePopup (src/popup.js): handleTransform with its   *)
(*               extraction, rhyme, audio and history steps, handleSave    *)
(*               and clearHistory.                                         *)
(*   SpecEntry   RhymeTimePopup (src/popup.js): the click handlers of play, *)
(*               copy, share, save, clear history and the API key dialog.  *)
(*   SpecExtractor  ContentExtractor (src/unnamed/part_001): the content   *)
(*               script's extractContent message and extraction chain.     *)
(*   SpecMessages  the request/response messages between the popup, the   *)
(*               background script and the content script.                 *)
(*   SpecPlayer  AudioPlayer (src/gemini.js): loadTrack, the controls and  *)
(*               the events of the handles it has installed.               *)
(*                                                                         *)
(* Every asynchronous handler is cut at its suspension points (await,      *)
(* callback); one action is the code that runs between two of them.        *)
(***************************************************************************)
EXTENDS Integers, Sequences, FiniteSets, TLC

VARIABLES
    \* ---- GeminiAPI (src/gemini.js) ----
    apiKey,         \* this.apiKey ("" models null)
    storedKey,      \* chrome.storage.sync geminiApiKey ("" models absent)
    gpc,            \* position of the running transformToRhyme call
    gArgs,          \* its arguments: content and options
    attempt,        \* the attempt parameter of the running callGeminiAPI
    outcomes,       \* how each fetch of this call settled, in order
    fetchCount,     \* fetch calls issued by this call
    delays,         \* the delay(ms) calls of this call, in order
    gResult,        \* what transformToRhyme gave its caller
    \* ---- background script, the proxy relay (src/unnamed/part_000) ----
    msgs,           \* the generateRhyme messages: position, request data, response
    \* ---- AudioGenerator (src/audiogenerator.js) ----
    currentService, \* this.currentService
    audioCache,     \* this.audioCache: the entries of the Map, in insertion order
    calls,          \* the generateAudio calls in flight: position, input, backends invoked
    lastReturn,     \* the generateAudio call that completed last, and what it gave
    syncStore,      \* chrome.storage.sync: the credential keys holding a value
    storedService,  \* chrome.storage.sync audioService ("" models absent)
    speechSupported,\* "speechSynthesis" in window
    requests,       \* generateAudio calls started so far
    serviceChanges, \* setService and getCurrentService calls so far
    hitKeys,        \* the keys generateAudio has answered from the cache
    lastCacheOp,    \* the last operation on the cache: hit or insert, and what it evicted
    \* ---- RhymeTimePopup (src/popup.js) ----
    isProcessing,   \* this.isProcessing
    loading,        \* showLoading: the spinner is shown and the transform button disabled
    currentContent, \* this.currentContent: "null", "undefined" or "page"
    settings,       \* this.settings, as loadSettings read rhymeTimeSettings
    history,        \* this.history, newest first
    rhymeHistory,   \* chrome.storage.local rhymeHistory
    audioPlayer,    \* this.audioPlayer: whether it exists, and the track it holds
    generatorLoaded,\* window.AudioGenerator is defined
    rhymeText,      \* textContent of #rhyme-text: 0 when empty, else the rhyme shown
    status,         \* innerHTML of #status
    transforms,     \* the handleTransform invocations past their guard, by slot
    lastTransform,  \* how the last finished handleTransform went
    clicks,         \* handleTransform invocations so far
    refused,        \* of these, the ones the isProcessing guard returned from
    saveClicks,     \* handleSave and clearHistory invocations so far
    callbacks,      \* the chrome.storage.local.set calls not yet called back, in order
    backendUse,     \* per rhyme: generateAudio requests and synthesis backend invocations
    now,            \* Date.now(), advanced by every saveToHistory
    \* ---- AudioPlayer (src/gemini.js) ----
    currentAudio,   \* this.currentAudio: 0 models null, else the handle
    isPlaying,      \* this.isPlaying
    currentTrack,   \* this.currentTrack: 0 models null, else the n-th track handed in
    volume,         \* this.volume, in hundredths
    playbackRate,   \* this.playbackRate, in hundredths
    handles,        \* the handles created so far: "audio" element or "utterance"
    sounding,       \* the elements that play and the utterances in the speech queue
    synthPaused,    \* speechSynthesis is paused
    pendingPlay,    \* the elements whose play() promise has not settled
    events,         \* the start and end events queued for a handle, not yet handled
    position,       \* currentTime of each handle
    lastLoad,       \* what the last loadTrack returned
    playerOps,      \* clicks on the controls so far
    lastOp,         \* the control clicked last
    \* ---- RhymeTimePopup, the other click handlers (src/popup.js) ----
    unhandled,      \* the handlers whose promise rejected with nothing to catch it
    entryClicks,    \* clicks on play, copy, share, a history item and Save & Test
    settingsClears, \* times the settings page cleared rhymeHistory meanwhile
    \* ---- ContentExtractor, the content script (src/unnamed/part_001) ----
    document,       \* the page: what each extraction strategy finds in it
    responses,      \* what the listener passed to sendResponse, in order
    extractMessages,\* messages received so far
    \* ---- cross-context messages ----
    mbox            \* the messages the popup sent: action, position, what the callback got

gVars == <<apiKey, storedKey, gpc, gArgs, attempt, outcomes, fetchCount, delays, gResult>>
bVars == <<msgs>>
aVars == <<currentService, audioCache, calls, lastReturn, syncStore, storedService,
           speechSupported, requests, serviceChanges, hitKeys, lastCacheOp>>

uVars == <<isProcessing, loading, currentContent, settings, history, rhymeHistory, audioPlayer,
           generatorLoaded, rhymeText, status, transforms, lastTransform, clicks, refused,
           saveClicks, callbacks, backendUse, now>>

pVars == <<currentAudio, isPlaying, currentTrack, volume, playbackRate, handles, sounding,
           synthPaused, pendingPlay, events, position, lastLoad, playerOps, lastOp>>

eVars == <<unhandled, entryClicks, settingsClears>>

xVars == <<document, responses, extractMessages>>

mVars == <<mbox>>

vars == <<gVars, bVars, aVars, uVars, pVars, eVars, xVars, mVars>>

(***************************************************************************)
(* Text helpers.  A JavaScript string whose characters matter is a         *)
(* sequence of one-character strings; Str turns it into a TLA+ string.     *)
(***************************************************************************)
RECURSIVE Str(_)
Str(s) == IF s = <<>> THEN "" ELSE Head(s) \o Str(Tail(s))

IsSpace(c) == c \in {" ", "\n", "\t"}

RECURSIVE TrimLeft(_)
TrimLeft(s) == IF s # <<>> /\ IsSpace(Head(s)) THEN TrimLeft(Tail(s)) ELSE s

RECURSIVE TrimRight(_)
TrimRight(s) ==
    IF s # <<>> /\ IsSpace(s[Len(s)]) THEN TrimRight(SubSeq(s, 1, Len(s) - 1)) ELSE s

\* String.prototype.trim
Trim(s) == TrimRight(TrimLeft(s))

IsTerminator(c) == c \in {".", "!", "?"}

\* content.split(/[.!?]+/): the pieces between maximal runs of terminators
RECURSIVE SplitFrom(_, _, _)
SplitFrom(s, cur, inRun) ==
    IF s = <<>> THEN <<cur>>
    ELSE IF IsTerminator(Head(s))
         THEN IF inRun THEN SplitFrom(Tail(s), cur, TRUE)
              ELSE <<cur>> \o SplitFrom(Tail(s), <<>>, TRUE)
         ELSE SplitFrom(Tail(s), Append(cur, Head(s)), FALSE)

SplitSentences(s) == SplitFrom(s, <<>>, FALSE)

RECURSIVE Filter(_, _)
Filter(seq, minLen) ==
    IF seq = <<>> THEN <<>>
    ELSE IF Len(Trim(Head(seq))) > minLen
         THEN <<Head(seq)>> \o Filter(Tail(seq), minLen)
         ELSE Filter(Tail(seq), minLen)

\* Array.prototype.slice(0, n)
Slice0(seq, n) == SubSeq(seq, 1, IF Len(seq) < n THEN Len(seq) ELSE n)

\* Array.prototype.join(sep) of an array of texts, as a TLA+ string
RECURSIVE Join(_, _)
Join(seq, sep) ==
    IF seq = <<>> THEN ""
    ELSE IF Len(seq) = 1 THEN Str(Head(seq))
         ELSE Str(Head(seq)) \o sep \o Join(Tail(seq), sep)

(***************************************************************************)
(* Inputs of the model.                                                    *)
(***************************************************************************)
TextEmpty == <<>>
TextShort == <<"H", "i", ".">>
TextOne == <<"F", "o", "x", "e", "s", " ", "j", "u", "m", "p", " ", "f", "a", "r", ".", " ", "O", "k", "!">>
TextThree == <<" ", "F", "o", "x", "e", "s", " ", "j", "u", "m", "p", " ", "f", "a", "r", ".", ".", " ", "S", "u", "n", "n", "y", " ", "d", "a", "y", "s", " ", "e", "n", "d", "!", " ", "D", "o", "g", "s", " ", "s", "l", "e", "e", "p", " ", "l", "a", "t", "e", "?">>

\* A content argument: a string, or a value that is no string (null, undefined)
StringContent(t) == [isString |-> TRUE, chars |-> t]
NullContent == [isString |-> FALSE, chars |-> <<>>]
Contents == {StringContent(TextEmpty), StringContent(TextShort), StringContent(TextOne),
             StringContent(TextThree), NullContent}

KnownStyles == {"rap", "pop", "nursery", "ballad", "country"}
KnownLengths == {"short", "medium", "long"}
Styles == {"pop", "country", "jazz"}
Lengths == {"medium", "epic"}
Keys == {"", "k1"}

(***************************************************************************)
(* GeminiAPI                                                               *)
(***************************************************************************)
maxRetries == 3
retryDelay == 1000

\* How one fetch of callGeminiAPI can settle
\* how a fetch of callGeminiAPI settles: fetch rejects, the endpoint answers
\* with an error status (keyRejected: because of the key in the URL), or it
\* answers OK with a body that lacks candidates[0].content, .parts or .text
FetchOutcomes ==
    {"networkError", "notOk", "keyRejected", "noCandidates", "noParts", "noText", "ok"}

\* The try block of callGeminiAPI throws: fetch rejected, !response.ok, the
\* format check failed, or content.parts is missing (a TypeError on parts[0])
AttemptThrows(o) == o \in {"networkError", "notOk", "keyRejected", "noCandidates", "noParts"}

AttemptError(o) ==
    CASE o = "networkError" -> "Failed to fetch"
      [] o \in {"notOk", "keyRejected"} -> "API request failed"
      [] o = "noCandidates" -> "Invalid response format from Gemini API"
      [] OTHER -> "TypeError"

\* The value callGeminiAPI returns: result.candidates[0].content.parts[0].text
ResponseText(o) == IF o = "ok" THEN "Roses are red" ELSE "undefined"

\* catch block of callGeminiAPI: retry while attempt < this.maxRetries
ShouldRetryMutant(a) == a <= maxRetries
ShouldRetry(a) == a < maxRetries

\* the backoff before the next attempt
BackoffMs(a) == retryDelay * a

\* extractKeyPoints(content, maxPoints)
extractKeyPoints(chars, maxPoints) == Slice0(Filter(SplitSentences(chars), 10), maxPoints)

FallbackTemplate(style, points) ==
    CASE style = "rap" ->
           "Yo, check this out, let me break it down,\n" \o points
             \o "\nThat's the story, that's the sound!"
      [] style = "pop" ->
           "Here's a story that you need to know,\n" \o points
             \o "\nNow you've heard it, now you know!"
      [] style = "nursery" ->
           "Listen close to what I say,\n" \o points \o "\nThat's the story for today!"
      [] style = "ballad" ->
           "Let me tell you of a tale,\n" \o points \o "\nThis story will never fail."
      [] style = "country" ->
           "Gather 'round, I'll tell you true,\n" \o points
             \o "\nThat's the story, through and through."

\* generateFallbackRhyme(content, style): templates[style] || templates.pop
generateFallbackRhyme(chars, style) ==
    FallbackTemplate(IF style \in KnownStyles THEN style ELSE "pop",
                     Join(extractKeyPoints(chars, 2), ",\n"))

\* createPrompt throws a TypeError for a content that has no substring method
\* (content.substring) and for a style or length missing from its tables
\* (guide.examples, spec.lines)
CreatePromptThrows(args) ==
    \/ ~args.content.isString
    \/ args.style \notin KnownStyles
    \/ args.length \notin KnownLengths

NoResult == [kind |-> "none"]
Success(text) == [kind |-> "returned", success |-> TRUE, raw |-> text]
\* (mutant) transformToRhyme without its try/catch: the error escapes
CatchResultMutant(args, msg) == [kind |-> "thrown", error |-> msg]
\* the catch block of transformToRhyme: generateFallbackRhyme calls
\* content.split, which throws when content is no string
CatchResult(args, msg) ==
    IF args.content.isString
    THEN [kind |-> "returned", success |-> FALSE, error |-> msg,
          fallback |-> generateFallbackRhyme(args.content.chars, args.style)]
    ELSE [kind |-> "thrown", error |-> "TypeError"]

\* the state of the other components, which GeminiAPI never touches
NotGemini == <<bVars, aVars, uVars, pVars, eVars, xVars, mVars>>

NoArgs == [content |-> NullContent, style |-> "pop", length |-> "medium"]

\* the GeminiAPI object after its constructor; the stored key is whatever an
\* earlier session left in chrome.storage.sync
GeminiConstructed ==
    /\ apiKey = ""
    /\ gpc = "idle"
    /\ gArgs = NoArgs
    /\ attempt = 0
    /\ outcomes = <<>>
    /\ fetchCount = 0
    /\ delays = <<>>
    /\ gResult = NoResult

\* setApiKey(apiKey)
SetApiKey ==
    \E k \in Keys :
        /\ apiKey' = k
        /\ storedKey' = k
        /\ UNCHANGED <<gpc, gArgs, attempt, outcomes, fetchCount, delays, gResult, NotGemini>>

\* transformToRhyme(content, options) up to `await this.getApiKey()`
TransformToRhyme ==
    \E c \in Contents, s \in Styles, l \in Lengths :
        /\ gpc \in {"idle", "done"}
        /\ gpc' = "getApiKey"
        /\ gArgs' = [content |-> c, style |-> s, length |-> l]
        /\ attempt' = 0
        /\ outcomes' = <<>>
        /\ fetchCount' = 0
        /\ delays' = <<>>
        /\ gResult' = NoResult
        /\ UNCHANGED <<apiKey, storedKey, NotGemini>>

\* getApiKey resolves; then the key check, createPrompt and the first fetch
GetApiKeyDone ==
    /\ gpc = "getApiKey"
    /\ apiKey' = IF apiKey # "" THEN apiKey ELSE storedKey
    /\ IF apiKey' = ""
       THEN /\ gpc' = "done"
            /\ gResult' = CatchResult(gArgs, "Gemini API key not configured")
            /\ UNCHANGED <<attempt, fetchCount>>
       ELSE IF CreatePromptThrows(gArgs)
       THEN /\ gpc' = "done"
            /\ gResult' = CatchResult(gArgs, "TypeError")
            /\ UNCHANGED <<attempt, fetchCount>>
       ELSE /\ gpc' = "fetch"
            /\ attempt' = 1
            /\ fetchCount' = fetchCount + 1
            /\ UNCHANGED gResult
    /\ UNCHANGED <<storedKey, gArgs, outcomes, delays, NotGemini>>

\* the fetch of callGeminiAPI settles: return the text, or the catch block
FetchSettles ==
    \E o \in FetchOutcomes :
        /\ gpc = "fetch"
        /\ outcomes' = Append(outcomes, o)
        /\ IF ~AttemptThrows(o)
           THEN /\ gpc' = "done"
                /\ gResult' = Success(ResponseText(o))
                /\ UNCHANGED delays
           ELSE IF ShouldRetry(attempt)
           THEN /\ gpc' = "delay"
                /\ delays' = Append(delays, BackoffMs(attempt))
                /\ UNCHANGED gResult
           ELSE /\ gpc' = "done"
                /\ gResult' = CatchResult(gArgs, AttemptError(o))
                /\ UNCHANGED delays
        /\ UNCHANGED <<apiKey, storedKey, gArgs, attempt, fetchCount, NotGemini>>

\* the backoff timer fires: callGeminiAPI(prompt, apiKey, attempt + 1)
DelayElapsed ==
    /\ gpc = "delay"
    /\ gpc' = "fetch"
    /\ attempt' = attempt + 1
    /\ fetchCount' = fetchCount + 1
    /\ UNCHANGED <<apiKey, storedKey, gArgs, outcomes, delays, gResult, NotGemini>>

NextGemini ==
    \/ SetApiKey
    \/ TransformToRhyme
    \/ GetApiKeyDone
    \/ FetchSettles
    \/ DelayElapsed


(***************************************************************************)
(* Background script: the proxy relay (src/unnamed/part_000)               *)
(***************************************************************************)
MaxMessages == 2

\* request.data of a generateRhyme message: absent, or an object whose
\* content is a string or no string (undefined, null)
NoData == [present |-> FALSE, content |-> NullContent, style |-> "pop"]
Data(c, s) == [present |-> TRUE, content |-> c, style |-> s]
RelayStyles == {"rap", "ballad"}
MessageData ==
    {NoData} \cup {Data(c, s) : c \in Contents, s \in RelayStyles}

\* how the fetch of the proxy server can settle
ProxyOutcomes == {"networkError", "notOk", "successFalse", "ok"}
ProxyRhyme == "Roses are red, violets are blue"

\* Array.prototype.map(s => s.trim())
RECURSIVE MapTrim(_)
MapTrim(seq) == IF seq = <<>> THEN <<>> ELSE <<Trim(Head(seq))>> \o MapTrim(Tail(seq))

\* the fallback templates of the background script
RelayTemplate(style, points) ==
    CASE style = "rap" ->
           "Yo, here's the story, let me break it down,\n" \o points
             \o "\nThat's the info, straight from the ground!"
      [] style = "pop" ->
           "Here's what happened, in a catchy way,\n" \o points
             \o "\nThat's the story of today!"
      [] style = "nursery" ->
           "Once upon a time, here's what we learned,\n" \o points
             \o "\nAnd that's how the story turned!"
      [] OTHER ->
           "Here's the story in a fun way:\n" \o points \o "\nThat's what happened today!"

\* generateFallbackRhyme(content, style) of the background script, for a
\* content that is a string
relayFallbackRhyme(chars, style) ==
    RelayTemplate(style, Join(Filter(MapTrim(Slice0(SplitSentences(chars), 2)), 0), ",\n"))

\* the input validation of handleRhymeGeneration throws: data cannot be
\* destructured, or !content, or content.trim().length < 10
ValidationThrows(d) ==
    \/ ~d.present
    \/ ~d.content.isString
    \/ d.content.chars = <<>>
    \/ Len(Trim(d.content.chars)) < 10

\* the response the listener sends when handleRhymeGeneration resolves
Fulfilled(rhyme, isFallback) ==
    [success |-> TRUE, rhyme |-> rhyme, fallback |-> isFallback]
\* the response the listener sends when handleRhymeGeneration rejects
Rejected(msg) == [success |-> FALSE, error |-> msg]

\* the catch block of handleRhymeGeneration, and what the listener sends then:
\* data.content and content.split throw a TypeError when data is absent or
\* content is no string, which rejects the promise
RelayCatch(d) ==
    IF d.present /\ d.content.isString
    THEN Fulfilled(relayFallbackRhyme(d.content.chars, d.style), TRUE)
    ELSE Rejected("TypeError")

\* the state of the other components, which the background script never touches
NotRelay == <<gVars, aVars, uVars, pVars, eVars, xVars, mVars>>

NoMessage == [pc |-> "none", data |-> NoData, response |-> [success |-> FALSE, error |-> ""]]

RelayStarted == msgs = [m \in 1..MaxMessages |-> NoMessage]

\* a generateRhyme message arrives: handleRhymeGeneration runs to its fetch,
\* or fails validation and answers from its catch block
ReceiveGenerateRhyme ==
    \E m \in 1..MaxMessages, d \in MessageData :
        /\ msgs[m].pc = "none"
        /\ msgs' = [msgs EXCEPT ![m] =
              IF ValidationThrows(d)
              THEN [pc |-> "responded", data |-> d, response |-> RelayCatch(d)]
              ELSE [pc |-> "fetch", data |-> d, response |-> NoMessage.response]]
        /\ UNCHANGED NotRelay

\* the fetch of the proxy settles and the listener sends the response
ProxySettles ==
    \E m \in 1..MaxMessages, o \in ProxyOutcomes :
        /\ msgs[m].pc = "fetch"
        /\ msgs' = [msgs EXCEPT ![m] =
              [pc |-> "responded", data |-> msgs[m].data,
               response |-> IF o = "ok" THEN Fulfilled(ProxyRhyme, FALSE)
                            ELSE RelayCatch(msgs[m].data)]]
        /\ UNCHANGED NotRelay

\* the sender has its response; the slot is free for the next message
MessageDone ==
    \E m \in 1..MaxMessages :
        /\ msgs[m].pc = "responded"
        /\ msgs' = [msgs EXCEPT ![m] = NoMessage]
        /\ UNCHANGED NotRelay

NextRelay ==
    \/ ReceiveGenerateRhyme
    \/ ProxySettles
    \/ MessageDone

(***************************************************************************)
(* AudioGenerator (src/audiogenerator.js)                                  *)
(***************************************************************************)
maxCacheSize == 50
supportedServices == {"browser", "elevenlabs", "google", "azure"}

MaxCallers == 2
MaxRequests == 2
MaxFresh == 1
MaxServiceChanges == 1

\* hashString: hash = (hash << 5) - hash + char, truncated to 32 bits after
\* every character.  The 32-bit value is kept as two 16-bit halves <<hi, lo>>.
HashStep(h, code) ==
    LET lo == h[2] * 31 + code
        hi == h[1] * 31 + (lo \div 65536)
    IN  <<hi % 65536, lo % 65536>>

RECURSIVE HashFrom(_, _)
HashFrom(h, codes) ==
    IF codes = <<>> THEN h ELSE HashFrom(HashStep(h, Head(codes)), Tail(codes))

hashString(codes) == HashFrom(<<0, 0>>, codes)

\* createCacheKey(text, style, options): `${style}-${options.gender || "default"}-${hash}`
createCacheKey(in) ==
    <<in.style, IF in.gender = "" THEN "default" ELSE in.gender, hashString(in.text)>>

\* The inputs (text, style, gender) of generateAudio, numbered.  The texts are
\* "a", "Aa", "BB" (same hash as "Aa"), "zzzzzzz" (its hash wraps) and "b";
\* gender "" models an absent options.gender.
AudioTexts == << <<97>>, <<65, 97>>, <<66, 66>>, <<122, 122, 122, 122, 122, 122, 122>>, <<98>> >>
AudioStyles == <<"rap", "pop", "nursery", "ballad", "country">>
AudioGenders == <<"male", "female", "">>
InputAt(n) ==
    [text |-> AudioTexts[((n - 1) % 5) + 1],
     style |-> AudioStyles[(((n - 1) \div 5) % 5) + 1],
     gender |-> AudioGenders[(((n - 1) \div 25) % 3) + 1]]
KeyAt(n) == createCacheKey(InputAt(n))

\* Map operations on the insertion-ordered entries
CacheKeys(c) == {c[i].key : i \in 1..Len(c)}
CacheHas(c, k) == k \in CacheKeys(c)
CacheGet(c, k) == (CHOOSE i \in 1..Len(c) : c[i].key = k)
MapDelete(c, k) == SelectSeq(c, LAMBDA e : e.key # k)
MapSet(c, k, v) ==
    IF CacheHas(c, k)
    THEN [i \in 1..Len(c) |-> IF c[i].key = k THEN [key |-> k, value |-> v] ELSE c[i]]
    ELSE Append(c, [key |-> k, value |-> v])

\* (mutant) the size test off by one: evicts only when already over the limit
cacheAudioLate(c, k, v) ==
    MapSet(IF Len(c) > maxCacheSize THEN MapDelete(c, c[1].key) ELSE c, k, v)
\* (mutant) evicts the newest entry instead of the oldest
cacheAudioNewest(c, k, v) ==
    MapSet(IF Len(c) >= maxCacheSize THEN MapDelete(c, c[Len(c)].key) ELSE c, k, v)
\* cacheAudio(key, audioResult)
cacheAudio(c, k, v) ==
    MapSet(IF Len(c) >= maxCacheSize THEN MapDelete(c, c[1].key) ELSE c, k, v)

\* (mutant) the direct-playback result carries an audioUrl as well
BrowserResultMutant(o, n) ==
    [success |-> TRUE, service |-> "browser", audioUrl |-> TRUE, utterance |-> o # "recorded",
     playDirectly |-> o # "recorded", input |-> n]
\* the AudioResult of generateWithBrowser: the recorded blob, or the utterance
\* for direct playback when recordSpeech rejected
BrowserResult(o, n) ==
    IF o = "recorded"
    THEN [success |-> TRUE, service |-> "browser", audioUrl |-> TRUE, utterance |-> FALSE,
          playDirectly |-> FALSE, input |-> n]
    ELSE [success |-> TRUE, service |-> "browser", audioUrl |-> FALSE, utterance |-> TRUE,
          playDirectly |-> TRUE, input |-> n]
\* the AudioResult of the three remote backends
RemoteResult(svc, n) ==
    [success |-> TRUE, service |-> svc, audioUrl |-> TRUE, utterance |-> FALSE,
     playDirectly |-> FALSE, input |-> n]

BrowserOutcomes == {"recorded", "direct"}
RemoteOutcomes == {"ok", "notOk", "networkError"}

\* getApiKey(service) reads `${service}ApiKey`; getAzureConfig reads azureKey
\* and azureRegion
CredentialNames(svc) ==
    CASE svc = "elevenlabs" -> {"elevenlabsApiKey"}
      [] svc = "google" -> {"googleApiKey"}
      [] svc = "azure" -> {"azureKey", "azureRegion"}
      [] OTHER -> {}
Configured(svc, store) == CredentialNames(svc) \subseteq store

\* the keys saveSettings of the settings page writes (src/settings.js)
SettingsCredentials == {"elevenLabsApiKey", "googleApiKey", "azureApiKey", "azureRegion"}

NoCall == [pc |-> "idle", input |-> 0, invoked |-> <<>>]
NoReturn == [kind |-> "none"]
\* generateAudio resolved with AudioResult v, or rejected
Returned(call, v, hit) ==
    [kind |-> "result", input |-> call.input, invoked |-> call.invoked, value |-> v,
     fromCache |-> hit]
RejectedCall(call) == [kind |-> "rejected", input |-> call.input, invoked |-> call.invoked]
\* a call takes the first slot that holds no call in flight
FreeSlot(c) == calls[c].pc = "idle" /\ \A d \in 1..(c - 1) : calls[d].pc # "idle"
IsRemote(svc) == svc \in {"elevenlabs", "google", "azure"}
NoCacheOp == [op |-> "none", key |-> <<>>, evicted |-> <<>>]

\* the cache after generateAudio served inputs 1..n one after the other with
\* the browser backend recording every one of them
\* one generateAudio call for input n on cache c
ServeOne(c, n) ==
    IF CacheHas(c, KeyAt(n)) THEN c
    ELSE cacheAudio(c, KeyAt(n), BrowserResult("recorded", n))
RECURSIVE ServeFrom(_, _, _)
ServeFrom(c, n, last) ==
    IF n > last THEN c
    ELSE CHOOSE r \in {ServeFrom(d, n + 1, last) : d \in {ServeOne(c, n)}} : TRUE
Served(n) == ServeFrom(<<>>, 1, n)

\* the inputs the callers ask for: input 1 (the oldest entry of a warm cache),
\* the input after the served ones ("BB", which has the key of the last served
\* input, "Aa") and MaxFresh inputs after it
ServedInputs == 62
RequestInputs == {1} \cup (ServedInputs + 1)..(ServedInputs + 1 + MaxFresh)

\* a new AudioGenerator(), or one that has served the first ServedInputs inputs
\* (50 distinct keys: the cache is full)
AudioConstructed ==
    /\ currentService = "browser"
    /\ audioCache = <<>>
    /\ calls = [c \in 1..MaxCallers |-> NoCall]
    /\ lastReturn = NoReturn
    /\ requests = 0
    /\ serviceChanges = 0
    /\ hitKeys = {}
    /\ lastCacheOp = NoCacheOp

AudioWarm ==
    /\ speechSupported
    /\ syncStore = SettingsCredentials
    /\ storedService = "google"
    /\ currentService = "browser"
    /\ audioCache = Served(ServedInputs)
    /\ calls = [c \in 1..MaxCallers |-> NoCall]
    /\ lastReturn = NoReturn
    /\ requests = 0
    /\ serviceChanges = 0
    /\ hitKeys = {}
    /\ lastCacheOp = NoCacheOp

AudioEnvironment ==
    /\ syncStore \in {{}, SettingsCredentials}
    /\ storedService \in {"", "google"}
    /\ speechSupported \in BOOLEAN

NotAudio == <<gVars, bVars, uVars, pVars, eVars, xVars, mVars>>

\* the cache and the ghost after cacheAudio(key, result)
Insert(k, v) ==
    /\ audioCache' = cacheAudio(audioCache, k, v)
    /\ lastCacheOp' =
         [op |-> "insert", key |-> k,
          evicted |-> IF Len(audioCache) >= maxCacheSize /\ audioCache'[1] # audioCache[1]
                      THEN audioCache[1].key ELSE <<>>]

\* generateAudio(text, style, options) up to its first await: the cache check
\* and the dispatch on this.currentService
GenerateAudio ==
    \E c \in 1..MaxCallers, n \in RequestInputs :
        /\ FreeSlot(c)
        /\ requests < MaxRequests
        /\ requests' = requests + 1
        /\ IF CacheHas(audioCache, KeyAt(n))
           THEN /\ lastReturn' =
                     Returned([input |-> n, invoked |-> <<>>],
                              audioCache[CacheGet(audioCache, KeyAt(n))].value, TRUE)
                /\ lastCacheOp' = [op |-> "hit", key |-> KeyAt(n), evicted |-> <<>>]
                /\ hitKeys' = hitKeys \cup {KeyAt(n)}
                /\ UNCHANGED calls
           ELSE /\ calls' = [calls EXCEPT ![c] =
                     [pc |-> IF IsRemote(currentService) THEN "credentials" ELSE "browser",
                      input |-> n,
                      invoked |-> <<IF IsRemote(currentService)
                                    THEN currentService ELSE "browser">>]]
                /\ UNCHANGED <<lastCacheOp, lastReturn, hitKeys>>
        /\ UNCHANGED <<currentService, audioCache, syncStore, storedService, speechSupported,
                       serviceChanges, NotAudio>>

\* (mutant) generateAudio without its catch block: the error leaves the call
ToFallbackMutant(c) ==
    /\ calls' = [calls EXCEPT ![c] = NoCall]
    /\ lastReturn' = RejectedCall(calls[c])
\* the catch block of generateAudio: generateWithBrowser as the fallback
ToFallback(c) ==
    /\ calls' = [calls EXCEPT ![c].pc = "fallback",
                              ![c].invoked = Append(calls[c].invoked, "browser")]
    /\ UNCHANGED lastReturn

\* the call of slot c is over
Finish(c, ret) ==
    /\ calls' = [calls EXCEPT ![c] = NoCall]
    /\ lastReturn' = ret

\* (mutant) a failed fallback is caught and tried again
FallbackFailsMutant(c) ==
    /\ calls' = [calls EXCEPT ![c].invoked = Append(calls[c].invoked, "browser")]
    /\ UNCHANGED lastReturn
\* the fallback rejected: `return await this.generateWithBrowser(...)` in the
\* catch block rejects generateAudio
FallbackFails(c) == Finish(c, RejectedCall(calls[c]))

\* getApiKey / getAzureConfig answers in a remote backend: throw when the
\* credential is missing, else issue the fetch
CredentialsRead ==
    \E c \in 1..MaxCallers :
        /\ calls[c].pc = "credentials"
        /\ IF Configured(calls[c].invoked[1], syncStore)
           THEN calls' = [calls EXCEPT ![c].pc = "fetch"] /\ UNCHANGED lastReturn
           ELSE ToFallback(c)
        /\ UNCHANGED <<currentService, audioCache, syncStore, storedService, speechSupported,
                       requests, serviceChanges, hitKeys, lastCacheOp, NotAudio>>

\* the fetch of a remote backend settles: the result is cached and returned,
\* or the error reaches the catch block
RemoteSettles ==
    \E c \in 1..MaxCallers, o \in RemoteOutcomes :
        /\ calls[c].pc = "fetch"
        /\ IF o = "ok"
           THEN LET r == RemoteResult(calls[c].invoked[1], calls[c].input)
                IN  /\ Insert(KeyAt(calls[c].input), r)
                    /\ Finish(c, Returned(calls[c], r, FALSE))
           ELSE /\ ToFallback(c)
                /\ UNCHANGED <<audioCache, lastCacheOp>>
        /\ UNCHANGED <<currentService, syncStore, storedService, speechSupported, requests,
                       serviceChanges, hitKeys, NotAudio>>

\* (mutant) the result of the fallback is cached too
CachedMutant(pc) == TRUE
\* cacheAudio is called in the try block only: a result of generateWithBrowser
\* is cached when it was the dispatched backend, not when it is the fallback
Cached(pc) == pc = "browser"

\* generateWithBrowser settles, as the dispatched backend or as the fallback
BrowserSettles ==
    \E c \in 1..MaxCallers, o \in BrowserOutcomes :
        /\ calls[c].pc \in {"browser", "fallback"}
        /\ IF ~speechSupported
           THEN /\ IF calls[c].pc = "browser"
                   THEN ToFallback(c)
                   ELSE FallbackFails(c)
                /\ UNCHANGED <<audioCache, lastCacheOp>>
           ELSE LET r == BrowserResult(o, calls[c].input)
                IN  /\ Finish(c, Returned(calls[c], r, FALSE))
                    /\ IF Cached(calls[c].pc)
                       THEN Insert(KeyAt(calls[c].input), r)
                       ELSE UNCHANGED <<audioCache, lastCacheOp>>
        /\ UNCHANGED <<currentService, syncStore, storedService, speechSupported, requests,
                       serviceChanges, hitKeys, NotAudio>>

\* setService(service)
SetService ==
    \E s \in supportedServices \cup {"polly"} :
        /\ serviceChanges < MaxServiceChanges
        /\ serviceChanges' = serviceChanges + 1
        /\ IF s \in supportedServices
           THEN currentService' = s /\ storedService' = s
           ELSE UNCHANGED <<currentService, storedService>>
        /\ UNCHANGED <<audioCache, calls, lastReturn, syncStore, speechSupported, requests,
                       hitKeys, lastCacheOp, NotAudio>>

\* getCurrentService(): the storage callback
GetCurrentService ==
    /\ serviceChanges < MaxServiceChanges
    /\ serviceChanges' = serviceChanges + 1
    /\ currentService' = IF storedService = "" THEN "browser" ELSE storedService
    /\ UNCHANGED <<audioCache, calls, lastReturn, syncStore, storedService, speechSupported,
                   requests, hitKeys, lastCacheOp, NotAudio>>

NextAudio ==
    \/ GenerateAudio
    \/ CredentialsRead
    \/ RemoteSettles
    \/ BrowserSettles
    \/ SetService
    \/ GetCurrentService

(***************************************************************************)
(* RhymeTimePopup (src/popup.js)                                           *)
(***************************************************************************)
defaultMaxHistory == 25

MaxClicks == 2
MaxSaveClicks == 1
MaxInFlight == 2
MaxStored == 26

\* Array.prototype.slice(0, n) for any integer n: a negative n counts from the end
slice(seq, n) ==
    IF n >= 0
    THEN SubSeq(seq, 1, IF Len(seq) < n THEN Len(seq) ELSE n)
    ELSE SubSeq(seq, 1, IF Len(seq) + n < 0 THEN 0 ELSE Len(seq) + n)

\* this.settings after loadSettings: {} when rhymeTimeSettings is absent (its
\* saveHistory is then undefined, which is falsy), else what the settings page
\* saved.  maxHistory is <<>> when absent and <<n>> otherwise; the settings
\* page stores Number.parseInt(field) || 0 without a range check.
NoSettings == [saveHistory |-> FALSE, maxHistory |-> <<>>]
MaxHistoryInputs == {0, 2, defaultMaxHistory, -1}
SettingsValues ==
    {NoSettings, [saveHistory |-> FALSE, maxHistory |-> <<defaultMaxHistory>>]}
        \cup {[saveHistory |-> TRUE, maxHistory |-> <<n>>] : n \in MaxHistoryInputs}

\* const maxHistory = this.settings.maxHistory || 25
maxHistoryOf(st) ==
    IF st.maxHistory = <<>> \/ st.maxHistory[1] = 0 THEN defaultMaxHistory ELSE st.maxHistory[1]

\* the rhymes the relay answers with; as generateAudio inputs they are the
\* texts AudioTexts[r] with the style and voice preference the popup's controls
\* hold by default
Rhymes == 1..2
PopupInput(r) == [text |-> AudioTexts[r], style |-> "pop", gender |-> "auto"]

\* a HistoryItem: id is Date.now() at the save
HistoryItem(id, r) == [id |-> id, rhyme |-> r]
\* rhymeHistory as earlier popup sessions left it: n items, newest first
StoredHistory(n) == [i \in 1..n |-> HistoryItem(n + 1 - i, 1)]
StoredLengths == {0, 3, defaultMaxHistory - 1, MaxStored}

\* saveToHistory up to its await: unshift, then the size limit
unshift(h, item) == <<item>> \o h
\* (mutant) the limit keeps the oldest items instead of the newest
LimitKeepsOldest(h, st) ==
    IF Len(h) > maxHistoryOf(st) /\ maxHistoryOf(st) >= 0
    THEN SubSeq(h, Len(h) - maxHistoryOf(st) + 1, Len(h)) ELSE h
Limit(h, st) == IF Len(h) > maxHistoryOf(st) THEN slice(h, maxHistoryOf(st)) ELSE h

\* new AudioGenerator()
NewAudioGenerator == [currentService |-> "browser", audioCache |-> <<>>]

\* (mutant) handleTransform without its guard
RefusesMutant(processing) == FALSE
\* if (this.isProcessing) return
Refuses(processing) == processing

\* (mutant) generateAudio without its try/catch
AudioCatchMutant(tag) == "thrown"
\* the catch block of RhymeTimePopup.generateAudio logs and returns
AudioCatch(tag) == "swallowed"

\* (mutant) the steps of handleTransform in another order: extraction again
\* after the rhyme
StepAfterMutant(step) ==
    CASE step = "extract" -> "rhyme"
      [] step = "rhyme" -> "extract"
      [] step = "audio" -> "save"
\* the order of the awaits in the try block of handleTransform:
\* extractPageContent, generateRhyme, generateAudio (which hands the result to
\* the player), saveToHistory
StepAfter(step) ==
    CASE step = "extract" -> "rhyme"
      [] step = "rhyme" -> "audio"
      [] step = "audio" -> "save"

ExtractOutcomes == {"lastError", "noResponse", "failed", "noData", "ok"}
RhymeOutcomes == {"lastError", "noResponse", "failed", "noData", "ok"}
LoadOutcomes == {"loaded", "failed", "rejected"}

\* a transform: the step it is waiting in, the outcome of the response its last
\* completed step got, the rhyme and how the audio step ended
NoTransform == [pc |-> "idle", got |-> "none", rhyme |-> 0, audio |-> "none"]
\* (mutant) a check that lets a success:false response through
SucceededMutant(o) == o \in {"ok", "failed"}
\* what handleTransform goes on with: a response with success: true and the
\* data the next lines read.  lastError resolves to {success: false}, a missing
\* response and missing data end in a TypeError inside the try block
Succeeded(o) == o = "ok"

NoTransformYet == [result |-> "none", rhyme |-> 0, audio |-> "none", saved |-> FALSE]
NoBackendUse == [r \in Rhymes |-> [requests |-> 0, backend |-> 0]]
FreeTransform(s) == transforms[s].pc = "idle" /\ \A d \in 1..(s - 1) : transforms[d].pc # "idle"

\* the popup once init() has run: settings and history loaded from storage
PopupReady ==
    /\ isProcessing = FALSE
    /\ loading = FALSE
    /\ currentContent = "null"
    /\ history = rhymeHistory
    /\ audioPlayer.track = 0
    /\ rhymeText = 0
    /\ status = "Ready to transform pages!"
    /\ transforms = [s \in 1..MaxInFlight |-> NoTransform]
    /\ lastTransform = NoTransformYet
    /\ clicks = 0
    /\ refused = 0
    /\ saveClicks = 0
    /\ callbacks = <<>>
    /\ backendUse = NoBackendUse
    /\ now = Len(rhymeHistory) + 1

\* what the popup page finds: the stored settings and history, and whether
\* window.AudioGenerator, window.AudioPlayer and speechSynthesis exist
Pages ==
    {[generator |-> TRUE, player |-> TRUE, speech |-> TRUE],
     [generator |-> TRUE, player |-> TRUE, speech |-> FALSE],
     [generator |-> TRUE, player |-> FALSE, speech |-> TRUE],
     [generator |-> FALSE, player |-> TRUE, speech |-> TRUE]}
PopupEnvironment ==
    /\ settings \in SettingsValues
    /\ rhymeHistory \in {StoredHistory(n) : n \in StoredLengths}
    /\ \E page \in Pages :
           /\ generatorLoaded = page.generator
           /\ audioPlayer = [present |-> page.player, track |-> 0]
           /\ speechSupported = page.speech

NotPopup == <<gVars, bVars, aVars, pVars, eVars, xVars, mVars>>

\* (mutant) handleTransform without its finally block on the error path
FailMutant(s, tag) ==
    /\ status' = "Transform failed. Please try again."
    /\ UNCHANGED <<isProcessing, loading>>
    /\ transforms' = [transforms EXCEPT ![s] = NoTransform]
    /\ lastTransform' = [result |-> "failed", rhyme |-> transforms[s].rhyme,
                         audio |-> tag, saved |-> FALSE]
\* the catch and finally blocks of handleTransform
Fail(s, tag) ==
    /\ status' = "Transform failed. Please try again."
    /\ isProcessing' = FALSE
    /\ loading' = FALSE
    /\ transforms' = [transforms EXCEPT ![s] = NoTransform]
    /\ lastTransform' = [result |-> "failed", rhyme |-> transforms[s].rhyme,
                         audio |-> tag, saved |-> FALSE]

\* the end of the try block of handleTransform, and its finally block
Complete(s, r, tag, saved) ==
    /\ status' = "Ready! Your rhyme is complete."
    /\ isProcessing' = FALSE
    /\ loading' = FALSE
    /\ transforms' = [transforms EXCEPT ![s] = NoTransform]
    /\ lastTransform' = [result |-> "ok", rhyme |-> r, audio |-> tag, saved |-> saved]

\* (mutant) a write that adds the new item to what storage holds
WrittenMutant(h, stored) == <<Head(h)>> \o stored
\* chrome.storage.local.set({rhymeHistory: this.history}): the stored value
\* becomes the whole in-memory list, whatever was stored
Written(h, stored) == h

\* saveToHistory(rhymeData) up to its await on chrome.storage.local.set;
\* caller is the handleTransform slot, or 0 for handleSave
SaveToHistory(r, caller) ==
    /\ history' = Limit(unshift(history, HistoryItem(now, r)), settings)
    /\ rhymeHistory' = Written(history', rhymeHistory)
    /\ callbacks' = Append(callbacks, [kind |-> "save", caller |-> caller])
    /\ now' = now + 1

\* handleTransform after `await this.generateAudio(...)` returned: step 5.
\* shown is the status on display at that point
AfterAudio(s, r, tag, shown) ==
    IF settings.saveHistory
    THEN /\ SaveToHistory(r, s)
         /\ transforms' = [transforms EXCEPT ![s] =
                                    [pc |-> StepAfter("audio"), got |-> transforms[s].got,
                                     rhyme |-> r, audio |-> tag]]
         /\ status' = shown
         /\ UNCHANGED <<isProcessing, loading, lastTransform>>
    ELSE /\ Complete(s, r, tag, FALSE)
         /\ UNCHANGED <<history, rhymeHistory, callbacks, now>>

\* an error thrown inside the try block of RhymeTimePopup.generateAudio
AudioThrows(s, r, tag) ==
    IF AudioCatch(tag) = "swallowed"
    THEN AfterAudio(s, r, tag, status)
    ELSE /\ Fail(s, tag)
         /\ UNCHANGED <<history, rhymeHistory, callbacks, now>>

\* handleTransform(), called by a click on the transform button, up to the
\* extractContent message
HandleTransform ==
    /\ clicks < MaxClicks
    /\ clicks' = clicks + 1
    /\ IF Refuses(isProcessing)
       THEN /\ refused' = refused + 1
            /\ UNCHANGED <<isProcessing, loading, status, transforms>>
       ELSE \E s \in 1..MaxInFlight :
                /\ FreeTransform(s)
                /\ isProcessing' = TRUE
                /\ loading' = TRUE
                /\ status' = "Extracting content from page..."
                /\ transforms' = [transforms EXCEPT ![s].pc = "extract"]
                /\ UNCHANGED refused
    /\ UNCHANGED <<currentContent, settings, history, rhymeHistory, audioPlayer, generatorLoaded,
                   rhymeText, lastTransform, saveClicks, callbacks, backendUse, now, NotPopup>>

\* the extractContent callback: step 1 ends; step 2 sends generateRhyme
ExtractResponse ==
    \E s \in 1..MaxInFlight, o \in ExtractOutcomes :
        /\ transforms[s].pc = "extract"
        /\ IF Succeeded(o)
           THEN /\ currentContent' = "page"
                /\ status' = "Generating your rhyme..."
                /\ transforms' = [transforms EXCEPT ![s].pc = StepAfter("extract"),
                                                    ![s].got = o]
                /\ UNCHANGED <<isProcessing, loading, lastTransform>>
           ELSE /\ currentContent' = IF o = "noData" THEN "undefined" ELSE currentContent
                /\ Fail(s, "none")
        /\ UNCHANGED <<settings, history, rhymeHistory, audioPlayer, generatorLoaded, rhymeText,
                       clicks, refused, saveClicks, callbacks, backendUse, now, NotPopup>>

\* the generateRhyme callback: step 2 ends, step 3 displays the rhyme, step 4
\* constructs an AudioGenerator and calls its generateAudio
RhymeResponse ==
    \E s \in 1..MaxInFlight, o \in RhymeOutcomes, r \in Rhymes :
        /\ transforms[s].pc = "rhyme"
        /\ IF Succeeded(o)
           THEN /\ rhymeText' = r
                /\ IF generatorLoaded
                   THEN LET hit == CacheHas(NewAudioGenerator.audioCache,
                                            createCacheKey(PopupInput(r)))
                        IN  /\ transforms' = [transforms EXCEPT ![s] =
                                    [pc |-> IF hit THEN "cached" ELSE StepAfter("rhyme"),
                                     got |-> o, rhyme |-> r, audio |-> "none"]]
                            /\ backendUse' = [backendUse EXCEPT
                                    ![r].requests = @ + 1,
                                    ![r].backend = IF hit THEN @ ELSE @ + 1]
                            /\ status' = "Creating audio..."
                            /\ UNCHANGED <<isProcessing, loading, lastTransform, history,
                                           rhymeHistory, callbacks, now>>
                   ELSE /\ AfterAudio(s, r, "skipped", "Creating audio...")
                        /\ UNCHANGED backendUse
           ELSE /\ Fail(s, "none")
                /\ UNCHANGED <<rhymeText, history, rhymeHistory, callbacks, now, backendUse>>
        /\ UNCHANGED <<currentContent, settings, audioPlayer, generatorLoaded, clicks, refused,
                       saveClicks, NotPopup>>

\* audioGenerator.generateAudio settles: generateWithBrowser resolved, or it
\* rejected, was tried again by the catch block and rejected again; then
\* loadTrack and step 5
AudioSettles ==
    \E s \in 1..MaxInFlight, o \in BrowserOutcomes, l \in LoadOutcomes :
        LET r == transforms[s].rhyme
            result == BrowserResult(o, r)
        IN  /\ transforms[s].pc = "audio"
            /\ IF ~speechSupported
               THEN /\ backendUse' = [backendUse EXCEPT ![r].backend = @ + 1]
                    /\ AudioThrows(s, r, "rejected")
                    /\ UNCHANGED audioPlayer
               ELSE /\ UNCHANGED backendUse
                    /\ IF result.success /\ audioPlayer.present
                       THEN CASE l = "loaded" ->
                                     /\ audioPlayer' = [audioPlayer EXCEPT !.track = r]
                                     /\ AfterAudio(s, r, "loaded", status)
                              [] l = "failed" ->
                                     /\ UNCHANGED audioPlayer
                                     /\ AfterAudio(s, r, "loadFailed", status)
                              [] l = "rejected" ->
                                     /\ UNCHANGED audioPlayer
                                     /\ AudioThrows(s, r, "loadRejected")
                       ELSE /\ UNCHANGED audioPlayer
                            /\ AfterAudio(s, r, "noPlayer", status)
            /\ UNCHANGED <<currentContent, settings, generatorLoaded, rhymeText, clicks, refused,
                           saveClicks, NotPopup>>

\* the chrome.storage.local.set callback of saveToHistory in step 5
HistoryStored ==
    /\ callbacks # <<>>
    /\ Head(callbacks).kind = "save"
    /\ Head(callbacks).caller # 0
    /\ callbacks' = Tail(callbacks)
    /\ LET s == Head(callbacks).caller
       IN  Complete(s, transforms[s].rhyme, transforms[s].audio, TRUE)
    /\ UNCHANGED <<currentContent, settings, history, rhymeHistory, audioPlayer, generatorLoaded,
                   rhymeText, clicks, refused, saveClicks, backendUse, now, NotPopup>>

\* the chrome.storage.local.set callback in handleSave and in clearHistory
SaveStored ==
    /\ callbacks # <<>>
    /\ Head(callbacks).caller = 0
    /\ callbacks' = Tail(callbacks)
    /\ status' = IF Head(callbacks).kind = "save"
                 THEN "Rhyme saved to history!" ELSE "History cleared!"
    /\ UNCHANGED <<isProcessing, loading, currentContent, settings, history, rhymeHistory,
                   audioPlayer, generatorLoaded, rhymeText, transforms, lastTransform, clicks,
                   refused, saveClicks, backendUse, now, NotPopup>>

\* handleSave(), called by a click on the save button
HandleSave ==
    /\ saveClicks < MaxSaveClicks
    /\ saveClicks' = saveClicks + 1
    /\ IF rhymeText = 0
       THEN UNCHANGED <<history, rhymeHistory, callbacks, now>>
       ELSE SaveToHistory(rhymeText, 0)
    /\ UNCHANGED <<isProcessing, loading, currentContent, settings, audioPlayer, generatorLoaded,
                   rhymeText, status, transforms, lastTransform, clicks, refused, backendUse,
                   NotPopup>>

\* clearHistory(), called by a click on the clear button; the user answers
\* the confirm dialog
ClearHistory ==
    \E confirmed \in BOOLEAN :
        /\ saveClicks < MaxSaveClicks
        /\ saveClicks' = saveClicks + 1
        /\ IF confirmed
           THEN /\ history' = <<>>
                /\ rhymeHistory' = <<>>
                /\ callbacks' = Append(callbacks, [kind |-> "clear", caller |-> 0])
           ELSE UNCHANGED <<history, rhymeHistory, callbacks>>
        /\ UNCHANGED <<isProcessing, loading, currentContent, settings, audioPlayer,
                       generatorLoaded, rhymeText, status, transforms, lastTransform, clicks,
                       refused, backendUse, now, NotPopup>>

NextPopup ==
    \/ HandleTransform
    \/ ExtractResponse
    \/ RhymeResponse
    \/ AudioSettles
    \/ HistoryStored
    \/ SaveStored
    \/ HandleSave
    \/ ClearHistory

(***************************************************************************)
(* RhymeTimePopup: the other click handlers (src/popup.js)                 *)
(***************************************************************************)
MaxEntryClicks == 2
MaxSettingsClears == 1

EntryQuiet == unhandled = {} /\ entryClicks = 0 /\ settingsClears = 0

\* what the promise a click handler returned ends in when the handler calls
\* this.audioPlayer.togglePlayback(): AudioPlayer defines togglePlayPause and
\* no togglePlayback, so the call is a TypeError outside any try block
TogglePlayback(name) == unhandled \cup {name}

ShareOutcomes == {"shared", "shareRejected", "copied", "copyRejected"}
ApiKeyOutcomes == {"empty", "ok", "testFailed", "noResponse"}

\* handlePlay(), called by a click on the play button
HandlePlay ==
    /\ entryClicks < MaxEntryClicks
    /\ entryClicks' = entryClicks + 1
    /\ IF audioPlayer.present
       THEN /\ unhandled' = TogglePlayback("handlePlay")
            /\ UNCHANGED status
       ELSE /\ status' = "Audio player not available"
            /\ UNCHANGED unhandled
    /\ UNCHANGED <<isProcessing, loading, currentContent, settings, history, rhymeHistory,
                   audioPlayer, generatorLoaded, rhymeText, transforms, lastTransform, clicks,
                   refused, saveClicks, callbacks, backendUse, now, settingsClears,
                   gVars, bVars, aVars, pVars, xVars, mVars>>

\* handleCopy(), called by a click on the copy button; written tells whether
\* navigator.clipboard.writeText resolved
HandleCopy ==
    \E written \in BOOLEAN :
        /\ entryClicks < MaxEntryClicks
        /\ entryClicks' = entryClicks + 1
        /\ IF rhymeText = 0
           THEN UNCHANGED status
           ELSE status' = IF written THEN "Rhyme copied to clipboard!"
                          ELSE "Failed to copy rhyme"
        /\ UNCHANGED <<isProcessing, loading, currentContent, settings, history, rhymeHistory,
                       audioPlayer, generatorLoaded, rhymeText, transforms, lastTransform,
                       clicks, refused, saveClicks, callbacks, backendUse, now, unhandled,
                       settingsClears, gVars, bVars, aVars, pVars, xVars, mVars>>

\* handleShare(), called by a click on the share button
HandleShare ==
    \E o \in ShareOutcomes :
        /\ entryClicks < MaxEntryClicks
        /\ entryClicks' = entryClicks + 1
        /\ IF rhymeText = 0 \/ o = "shared"
           THEN UNCHANGED status
           ELSE status' = IF o = "copied" THEN "Rhyme copied to clipboard for sharing!"
                          ELSE "Failed to share rhyme"
        /\ UNCHANGED <<isProcessing, loading, currentContent, settings, history, rhymeHistory,
                       audioPlayer, generatorLoaded, rhymeText, transforms, lastTransform,
                       clicks, refused, saveClicks, callbacks, backendUse, now, unhandled,
                       settingsClears, gVars, bVars, aVars, pVars, xVars, mVars>>

\* a click on one of the (at most five) history items updateHistoryDisplay
\* lists: its rhyme is put on display
HistoryItemClick ==
    \E i \in 1..Len(history) :
        /\ i <= 5
        /\ entryClicks < MaxEntryClicks
        /\ entryClicks' = entryClicks + 1
        /\ rhymeText' = history[i].rhyme
        /\ UNCHANGED <<isProcessing, loading, currentContent, settings, history, rhymeHistory,
                       audioPlayer, generatorLoaded, status, transforms, lastTransform, clicks,
                       refused, saveClicks, callbacks, backendUse, now, unhandled,
                       settingsClears, gVars, bVars, aVars, pVars, xVars, mVars>>

\* a click on "Save & Test" in the API key dialog: saveGeminiApiKey and its
\* try / catch / finally
SaveApiKey ==
    \E o \in ApiKeyOutcomes :
        /\ entryClicks < MaxEntryClicks
        /\ entryClicks' = entryClicks + 1
        /\ IF o = "empty"
           THEN UNCHANGED <<status, loading>>
           ELSE /\ status' = IF o = "ok" THEN "Ready to transform pages!"
                             ELSE "Setup failed"
                /\ loading' = FALSE
        /\ UNCHANGED <<isProcessing, currentContent, settings, history, rhymeHistory,
                       audioPlayer, generatorLoaded, rhymeText, transforms, lastTransform,
                       clicks, refused, saveClicks, callbacks, backendUse, now, unhandled,
                       settingsClears, gVars, bVars, aVars, pVars, xVars, mVars>>

\* clearHistory() of the settings page, confirmed, while the popup is open:
\* chrome.storage.local.remove(["rhymeHistory"]), which a later loadHistory
\* reads as []; nothing tells the popup (a dismissed dialog changes nothing)
SettingsClearHistory ==
    /\ settingsClears < MaxSettingsClears
    /\ settingsClears' = settingsClears + 1
    /\ rhymeHistory' = <<>>
    /\ UNCHANGED <<isProcessing, loading, currentContent, settings, history, audioPlayer,
                   generatorLoaded, rhymeText, status, transforms, lastTransform, clicks,
                   refused, saveClicks, callbacks, backendUse, now, unhandled, entryClicks,
                   gVars, bVars, aVars, pVars, xVars, mVars>>

NextEntry ==
    \/ SettingsClearHistory
    \/ HandlePlay
    \/ HandleCopy
    \/ HandleShare
    \/ HistoryItemClick
    \/ SaveApiKey
    \/ HandleSave
    \/ ClearHistory
    \/ SaveStored

(***************************************************************************)
(* AudioPlayer (src/gemini.js)                                             *)
(***************************************************************************)
MaxTracks == 2
MaxPlayerOps == 4
MaxTime == 2

\* the audio data handed to loadTrack: an utterance for direct playback, an
\* audio URL, or neither
TrackData == {"utterance", "url", "none"}
Volumes == {0, 80, 100}
Rates == {100, 150}
\* the clicks on the progress bar, as a percentage of its width
SeekPercents == {0, 50, 100}

IsUtterance(h) == h # 0 /\ handles[h] = "utterance"
IsElement(h) == h # 0 /\ handles[h] = "audio"
Utterances == {h \in 1..Len(handles) : handles[h] = "utterance"}
\* the handle produces sound: an element that plays, or an utterance in the
\* queue of a speechSynthesis that is not paused
Audible(h) == h \in sounding /\ (IsUtterance(h) => ~synthPaused)

\* stop() with this.currentAudio = h: speechSynthesis.cancel() empties the
\* queue; an element is paused, which rejects its pending play(), and rewound
Stopped(h) ==
    IF h = 0
    THEN [isPlaying |-> isPlaying, sounding |-> sounding, pendingPlay |-> pendingPlay,
          position |-> position]
    ELSE IF IsUtterance(h)
    THEN [isPlaying |-> FALSE, sounding |-> sounding \ Utterances, pendingPlay |-> pendingPlay,
          position |-> position]
    ELSE [isPlaying |-> FALSE, sounding |-> sounding \ {h}, pendingPlay |-> pendingPlay \ {h},
          position |-> [position EXCEPT ![h] = 0]]

\* the events the browser queues for the utterances a cancel() removed: an end
\* event each, or error events (whose handler only reports)
Cancelled(h, fires) ==
    IF IsUtterance(h) /\ fires
    THEN {<<u, "end">> : u \in sounding \cap Utterances}
    ELSE {}

\* (mutant) seek that does not look at the handle
SeeksMutant(h) == h # 0
\* seek(event) returns at once without a handle or with an utterance
Seeks(h) == ~(h = 0 \/ IsUtterance(h))

\* new AudioPlayer(containerId)
PlayerConstructed ==
    /\ currentAudio = 0
    /\ isPlaying = FALSE
    /\ currentTrack = 0
    /\ volume = 80
    /\ playbackRate = 100
    /\ handles = <<>>
    /\ sounding = {}
    /\ synthPaused = FALSE
    /\ pendingPlay = {}
    /\ events = {}
    /\ position = <<>>
    /\ lastLoad = "none"
    /\ playerOps = 0
    /\ lastOp = "none"

NotPlayer == <<gVars, bVars, aVars, uVars, eVars, xVars, mVars>>

\* (mutant) a load without playable data that drops the handle
KeptAudioMutant(h) == 0
\* loadTrack throws "No playable audio data provided" before any assignment to
\* this.currentAudio: the handle of the prior track stays
KeptAudio(h) == h

\* loadTrack(audioData, metadata); data is what audioData holds
LoadTrack ==
    \E data \in TrackData, fires \in BOOLEAN :
        LET st == Stopped(currentAudio)
            h == Len(handles) + 1
        IN  /\ currentTrack < MaxTracks
            /\ isPlaying' = st.isPlaying
            /\ sounding' = st.sounding
            /\ pendingPlay' = st.pendingPlay
            /\ events' = events \cup Cancelled(currentAudio, fires)
            /\ currentTrack' = currentTrack + 1
            /\ IF data = "none"
               THEN /\ lastLoad' = "false"
                    /\ position' = st.position
                    /\ currentAudio' = KeptAudio(currentAudio)
                    /\ UNCHANGED handles
               ELSE /\ lastLoad' = "true"
                    /\ handles' = Append(handles, IF data = "utterance" THEN "utterance"
                                                  ELSE "audio")
                    /\ position' = Append(st.position, 0)
                    /\ currentAudio' = h
            /\ UNCHANGED <<volume, playbackRate, synthPaused, playerOps, lastOp, NotPlayer>>

\* play(), from togglePlayPause() while not playing: speak the utterance, or
\* start the element and wait for its play() promise
Play ==
    /\ playerOps < MaxPlayerOps
    /\ playerOps' = playerOps + 1
    /\ lastOp' = "play"
    /\ ~isPlaying
    /\ IF currentAudio = 0
       THEN UNCHANGED <<isPlaying, sounding, pendingPlay, events>>
       ELSE IF IsUtterance(currentAudio)
       THEN /\ sounding' = sounding \cup {currentAudio}
            /\ events' = events \cup {<<currentAudio, "start">>}
            /\ isPlaying' = TRUE
            /\ UNCHANGED pendingPlay
       ELSE /\ pendingPlay' = pendingPlay \cup {currentAudio}
            /\ UNCHANGED <<isPlaying, sounding, events>>
    /\ UNCHANGED <<currentAudio, currentTrack, volume, playbackRate, handles, synthPaused,
                   position, lastLoad, NotPlayer>>

\* the play() promise of an element settles: play() goes on after its await,
\* or its catch block reports
PlaySettles ==
    \E h \in pendingPlay, ok \in BOOLEAN :
        /\ pendingPlay' = pendingPlay \ {h}
        /\ IF ok
           THEN /\ sounding' = sounding \cup {h}
                /\ isPlaying' = TRUE
           ELSE UNCHANGED <<sounding, isPlaying>>
        /\ UNCHANGED <<currentAudio, currentTrack, volume, playbackRate, handles, synthPaused,
                       events, position, lastLoad, playerOps, lastOp, NotPlayer>>

\* pause(), from togglePlayPause() while playing
Pause ==
    /\ playerOps < MaxPlayerOps
    /\ playerOps' = playerOps + 1
    /\ lastOp' = "pause"
    /\ isPlaying
    /\ IF currentAudio = 0
       THEN UNCHANGED <<isPlaying, sounding, pendingPlay, synthPaused>>
       ELSE /\ isPlaying' = FALSE
            /\ IF IsUtterance(currentAudio)
               THEN synthPaused' = TRUE /\ UNCHANGED <<sounding, pendingPlay>>
               ELSE /\ sounding' = sounding \ {currentAudio}
                    /\ pendingPlay' = pendingPlay \ {currentAudio}
                    /\ UNCHANGED synthPaused
    /\ UNCHANGED <<currentAudio, currentTrack, volume, playbackRate, handles, events, position,
                   lastLoad, NotPlayer>>

\* stop(), called by a click on the stop button
Stop ==
    \E fires \in BOOLEAN :
        LET st == Stopped(currentAudio)
        IN  /\ playerOps < MaxPlayerOps
            /\ playerOps' = playerOps + 1
            /\ lastOp' = "stop"
            /\ isPlaying' = st.isPlaying
            /\ sounding' = st.sounding
            /\ pendingPlay' = st.pendingPlay
            /\ position' = st.position
            /\ events' = events \cup Cancelled(currentAudio, fires)
            /\ UNCHANGED <<currentAudio, currentTrack, volume, playbackRate, handles,
                           synthPaused, lastLoad, NotPlayer>>

\* seek(event), called by a click on the progress bar
Seek ==
    \E percent \in SeekPercents :
        /\ playerOps < MaxPlayerOps
        /\ playerOps' = playerOps + 1
        /\ lastOp' = "seek"
        /\ IF Seeks(currentAudio)
           THEN position' = [position EXCEPT ![currentAudio] = (percent * MaxTime) \div 100]
           ELSE UNCHANGED position
        /\ UNCHANGED <<currentAudio, isPlaying, currentTrack, volume, playbackRate, handles,
                       sounding, synthPaused, pendingPlay, events, lastLoad, NotPlayer>>

\* setVolume(volume) and setPlaybackRate(rate), from the slider and the select
Adjust ==
    \E v \in Volumes, r \in Rates :
        /\ playerOps < MaxPlayerOps
        /\ playerOps' = playerOps + 1
        /\ lastOp' = "adjust"
        /\ \/ volume' = v /\ UNCHANGED playbackRate
           \/ playbackRate' = r /\ UNCHANGED volume
        /\ UNCHANGED <<currentAudio, isPlaying, currentTrack, handles, sounding, synthPaused,
                       pendingPlay, events, position, lastLoad, NotPlayer>>

\* an element that plays moves on (timeupdate), and at its end fires ended
Progress ==
    \E h \in sounding :
        /\ IsElement(h)
        /\ IF position[h] < MaxTime
           THEN /\ position' = [position EXCEPT ![h] = @ + 1]
                /\ UNCHANGED <<sounding, events>>
           ELSE /\ sounding' = sounding \ {h}
                /\ events' = events \cup {<<h, "end">>}
                /\ UNCHANGED position
        /\ UNCHANGED <<currentAudio, isPlaying, currentTrack, volume, playbackRate, handles,
                       synthPaused, pendingPlay, lastLoad, playerOps, lastOp, NotPlayer>>

\* an utterance is spoken to its end
SpeechEnds ==
    \E h \in sounding :
        /\ IsUtterance(h)
        /\ ~synthPaused
        /\ sounding' = sounding \ {h}
        /\ events' = events \cup {<<h, "end">>}
        /\ UNCHANGED <<currentAudio, isPlaying, currentTrack, volume, playbackRate, handles,
                       synthPaused, pendingPlay, position, lastLoad, playerOps, lastOp, NotPlayer>>

\* a queued event reaches its handler: onstart of an utterance, onend / ended
\* (onTrackEnded).  The handlers write this.isPlaying whatever handle is current.
EventFires ==
    \E e \in events :
        /\ events' = events \ {e}
        /\ isPlaying' = (e[2] = "start")
        /\ UNCHANGED <<currentAudio, currentTrack, volume, playbackRate, handles, sounding,
                       synthPaused, pendingPlay, position, lastLoad, playerOps, lastOp, NotPlayer>>

NextPlayer ==
    \/ LoadTrack
    \/ Play
    \/ PlaySettles
    \/ Pause
    \/ Stop
    \/ Seek
    \/ Adjust
    \/ Progress
    \/ SpeechEnds
    \/ EventFires

(***************************************************************************)
(* ContentExtractor, the content script (src/unnamed/part_001)             *)
(*                                                                         *)
(* A text is a sequence of runs: n characters of one kind.  "x" is a       *)
(* character of a word, " " a whitespace character, "Click here" one       *)
(* occurrence of an unwanted phrase, "." a dot of the ellipsis.            *)
(***************************************************************************)
maxContentLength == 3000
bodyLimit == 2000
minParagraphLength == 20
MaxExtracts == 1

Run(c, n) == [c |-> c, n |-> n]
Width(c) == IF c = "Click here" THEN 10 ELSE 1
Words(n) == <<Run("x", n)>>

\* the one form of a text: no empty run, no two neighbours of the same kind
RECURSIVE Merge(_)
Merge(t) ==
    IF t = <<>> THEN <<>>
    ELSE IF Head(t).n = 0 THEN Merge(Tail(t))
    ELSE LET r == Merge(Tail(t))
         IN  IF r # <<>> /\ Head(r).c = Head(t).c
             THEN <<Run(Head(t).c, Head(t).n + Head(r).n)>> \o Tail(r)
             ELSE <<Head(t)>> \o r

\* text.length
RECURSIVE TextLength(_)
TextLength(t) ==
    IF t = <<>> THEN 0 ELSE Head(t).n * Width(Head(t).c) + TextLength(Tail(t))

\* text.replace(/\s+/g, " ")
CollapseWhitespace(t) ==
    LET m == Merge(t)
    IN  [i \in DOMAIN m |-> IF m[i].c = " " THEN Run(" ", 1) ELSE m[i]]

\* text.trim()
TrimText(t) ==
    LET m == Merge(t)
        a == IF m # <<>> /\ m[1].c = " " THEN 2 ELSE 1
        b == IF m # <<>> /\ m[Len(m)].c = " " THEN Len(m) - 1 ELSE Len(m)
    IN  IF a > b THEN <<>> ELSE SubSeq(m, a, b)

\* content.replace(new RegExp(phrase, "gi"), "") for the unwanted phrases
RemovePhrases(t) == Merge(SelectSeq(t, LAMBDA r : r.c # "Click here"))

\* text.substring(0, k); a phrase cut in the middle leaves word characters
RECURSIVE SubstringFrom(_, _)
SubstringFrom(t, k) ==
    IF t = <<>> \/ k <= 0 THEN <<>>
    ELSE LET h == Head(t)
             len == h.n * Width(h.c)
         IN  IF len <= k
             THEN <<h>> \o SubstringFrom(Tail(t), k - len)
             ELSE <<Run(h.c, k \div Width(h.c)), Run("x", k % Width(h.c))>>
Substring(t, k) == Merge(SubstringFrom(t, k))

\* (mutant) an ellipsis of four dots
EllipsisMutant == <<Run(".", 4)>>
\* the "..." cleanContent appends
Ellipsis == <<Run(".", 3)>>

\* (mutant) cleanContent without its length limit
CutMutant(t) == t
\* cleanContent: "Limit content length for API efficiency"
Cut(t) ==
    IF TextLength(t) > maxContentLength
    THEN Merge(Substring(t, maxContentLength) \o Ellipsis)
    ELSE t

\* a value that may be null
Null == [null |-> TRUE, text |-> <<>>]
Some(t) == [null |-> FALSE, text |-> t]

\* (mutant) only null is passed over
TruthyMutant(v) == ~v.null
\* what a || b passes over: null and the empty string
Truthy(v) == ~v.null /\ v.text # <<>>

\* cleanContent(content)
cleanContent(v) ==
    IF ~(~v.null /\ v.text # <<>>)
    THEN <<>>
    ELSE TrimText(Cut(RemovePhrases(CollapseWhitespace(v.text))))

\* extractTextFromElement(element), raw being the textContent of the clone
\* once the excluded elements are removed
extractTextFromElement(raw) == TrimText(CollapseWhitespace(raw))

\* extractByStructure, extractByReadability, extractByTextDensity: null when
\* no element is selected, else the text of the element
extractByStructure(p) ==
    IF p.structural.null THEN Null ELSE Some(extractTextFromElement(p.structural.text))
extractByReadability(p) ==
    IF p.readable.null THEN Null ELSE Some(extractTextFromElement(p.readable.text))
extractByTextDensity(p) ==
    IF p.dense.null THEN Null ELSE Some(extractTextFromElement(p.dense.text))

\* paragraphs.join("\n\n")
RECURSIVE JoinParagraphs(_)
JoinParagraphs(ps) ==
    IF ps = <<>> THEN <<>>
    ELSE IF Len(ps) = 1 THEN Head(ps)
    ELSE Merge(Head(ps) \o <<Run(" ", 2)>> \o JoinParagraphs(Tail(ps)))

\* extractFallback: the paragraphs longer than 20 characters, else the start
\* of the body text; without a body, document.body.textContent throws
extractFallback(p) ==
    LET trimmed == [i \in DOMAIN p.paragraphs |-> TrimText(p.paragraphs[i])]
        kept == SelectSeq(trimmed, LAMBDA t : TextLength(t) > minParagraphLength)
    IN  IF kept # <<>>
        THEN [threw |-> FALSE, text |-> JoinParagraphs(kept)]
        ELSE IF p.body.null
        THEN [threw |-> TRUE, text |-> <<>>]
        ELSE [threw |-> FALSE, text |-> Substring(TrimText(p.body.text), bodyLimit)]

\* the chain of || in extractContent, and the strategy whose text it gives
Chain(p) ==
    LET s == extractByStructure(p)
        r == extractByReadability(p)
        d == extractByTextDensity(p)
        f == extractFallback(p)
    IN  IF Truthy(s) THEN [strategy |-> "structure", threw |-> FALSE, text |-> s.text]
        ELSE IF Truthy(r) THEN [strategy |-> "readability", threw |-> FALSE, text |-> r.text]
        ELSE IF Truthy(d) THEN [strategy |-> "density", threw |-> FALSE, text |-> d.text]
        ELSE [strategy |-> "fallback", threw |-> f.threw, text |-> f.text]

\* "Unable to extract content from this page."
Unable == <<Run("x", 6), Run(" ", 1), Run("x", 2), Run(" ", 1), Run("x", 7), Run(" ", 1),
            Run("x", 7), Run(" ", 1), Run("x", 4), Run(" ", 1), Run("x", 4), Run(" ", 1),
            Run("x", 4), Run(".", 1)>>

\* extractContent(): the try block, and the catch block when it throws
extractContent(p) ==
    LET c == Chain(p)
    IN  IF c.threw
        THEN [content |-> Unable, strategy |-> "none", caught |-> TRUE, escaped |-> FALSE]
        ELSE [content |-> cleanContent(Some(c.text)), strategy |-> c.strategy,
              caught |-> FALSE, escaped |-> FALSE]

\* the textContent of the element a strategy may select
ElementTexts ==
    {<<>>,
     <<Run(" ", 3)>>,
     Words(30),
     <<Run(" ", 2), Run("x", 30), Run(" ", 4), Run("x", 8), Run(" ", 1)>>,
     Words(maxContentLength),
     Words(maxContentLength + 1),
     Words(maxContentLength + 500),
     <<Run("Click here", 1), Run(" ", 1), Run("x", maxContentLength + 200)>>,
     <<Run("x", maxContentLength - 5), Run("Click here", 2), Run("x", 3)>>}

\* the documents the content script runs in
ExtractorPages ==
    [structural : {Null} \cup {Some(t) : t \in ElementTexts},
     readable : {Null, Some(<<>>), Some(Words(40))},
     dense : {Null, Some(Words(50))},
     paragraphs : {<<>>, <<Words(10)>>, <<Words(25), <<Run(" ", 1), Run("x", 3100)>>>>},
     body : {Null, Some(<<>>), Some(<<Run(" ", 2), Run("x", bodyLimit + 500)>>)}]

NotExtractor == <<gVars, bVars, aVars, uVars, pVars, eVars, mVars>>

ExtractorLoaded == responses = <<>> /\ extractMessages = 0

\* the onMessage listener, for request.action = "extractContent"
ExtractMessage ==
    /\ extractMessages < MaxExtracts
    /\ extractMessages' = extractMessages + 1
    /\ LET data == extractContent(document)
       IN  responses' = Append(responses,
               IF data.escaped
               THEN [success |-> FALSE, page |-> document, data |-> data]
               ELSE [success |-> TRUE, page |-> document, data |-> data])
    /\ UNCHANGED <<document, NotExtractor>>

\* the onMessage listener, for any other request: no response
OtherMessage ==
    /\ extractMessages < MaxExtracts
    /\ extractMessages' = extractMessages + 1
    /\ UNCHANGED <<document, responses, NotExtractor>>

NextExtractor ==
    \/ ExtractMessage
    \/ OtherMessage

(***************************************************************************)
(* Cross-context messages: popup, background script, content script        *)
(* (src/popup.js, src/unnamed/part_000, src/unnamed/part_001)              *)
(***************************************************************************)
MaxSent == 2

\* the actions the popup sends with chrome.runtime.sendMessage
MessageActions == {"extractContent", "generateRhyme", "checkApiKey", "testApiKey"}

NoRequest == [action |-> "none", pc |-> "none", response |-> "none", calledBack |-> 0]
\* what the callback of sendMessage is called with: a response object with its
\* success field, or undefined (with chrome.runtime.lastError set)
Answer(ok) == IF ok THEN "success:true" ELSE "success:false"
Undefined == "undefined"

\* the background listener has no branch for the action: it returns undefined
\* and the port closes without a response
Unhandled(action) == action \notin {"extractContent", "generateRhyme", "checkApiKey"}

NotMessages == <<gVars, bVars, aVars, uVars, pVars, eVars, xVars>>

MailboxEmpty == mbox = [s \in 1..MaxSent |-> NoRequest]

\* the callback of sendMessage runs with value v
CallBack(s, v) ==
    mbox' = [mbox EXCEPT ![s].pc = "done", ![s].response = v,
                         ![s].calledBack = @ + 1]

\* the popup calls chrome.runtime.sendMessage({action}, callback)
SendMessage ==
    \E s \in 1..MaxSent, a \in MessageActions :
        /\ mbox[s].pc = "none"
        /\ \A t \in 1..(s - 1) : mbox[t].pc # "none"
        /\ mbox' = [mbox EXCEPT ![s].action = a, ![s].pc = "sent"]
        /\ UNCHANGED NotMessages

\* the onMessage listener of the background script runs; hasTab tells
\* whether chrome.tabs.query found an active tab
BackgroundReceives ==
    \E s \in 1..MaxSent, hasTab \in BOOLEAN :
        /\ mbox[s].pc = "sent"
        /\ IF Unhandled(mbox[s].action)
           THEN CallBack(s, Undefined)
           ELSE IF mbox[s].action = "extractContent"
           THEN IF hasTab
                THEN mbox' = [mbox EXCEPT ![s].pc = "forwarded"]
                ELSE CallBack(s, Answer(FALSE))
           ELSE IF mbox[s].action = "generateRhyme"
           THEN mbox' = [mbox EXCEPT ![s].pc = "handling"]
           ELSE CallBack(s, Answer(TRUE))
        /\ UNCHANGED NotMessages

\* the callback of chrome.tabs.sendMessage runs: with the response of the
\* content script (extractContent always returns, so success is true), or
\* with undefined when no content script listens in the tab; the background
\* script passes it on with sendResponse(response)
TabResponds ==
    \E s \in 1..MaxSent, listening \in BOOLEAN :
        /\ mbox[s].pc = "forwarded"
        /\ CallBack(s, IF listening THEN Answer(TRUE) ELSE Undefined)
        /\ UNCHANGED NotMessages

\* handleRhymeGeneration settles: then or catch of the listener
RhymeGenerationSettles ==
    \E s \in 1..MaxSent, fulfilled \in BOOLEAN :
        /\ mbox[s].pc = "handling"
        /\ CallBack(s, Answer(fulfilled))
        /\ UNCHANGED NotMessages

NextMessages ==
    \/ SendMessage
    \/ BackgroundReceives
    \/ TabResponds
    \/ RhymeGenerationSettles

(***************************************************************************)
(* Specifications                                                          *)
(***************************************************************************)
\* the components a specification leaves alone stay as constructed
GeminiQuiet == GeminiConstructed /\ storedKey = ""
ExtractorQuiet == ExtractorLoaded /\ document = [structural |-> Null, readable |-> Null, dense |-> Null,
                                               paragraphs |-> <<>>, body |-> Some(<<>>)]
AudioQuiet ==
    AudioConstructed /\ syncStore = {} /\ storedService = "" /\ speechSupported = TRUE

PopupQuiet ==
    /\ settings = NoSettings
    /\ rhymeHistory = <<>>
    /\ generatorLoaded = TRUE
    /\ audioPlayer = [present |-> TRUE, track |-> 0]
    /\ PopupReady

InitGemini ==
    /\ GeminiConstructed /\ storedKey \in Keys /\ RelayStarted /\ AudioQuiet /\ PopupQuiet
    /\ PlayerConstructed
    /\ EntryQuiet
    /\ ExtractorQuiet /\ MailboxEmpty
SpecGemini == InitGemini /\ [][NextGemini]_vars

InitRelay ==
    /\ GeminiQuiet /\ RelayStarted /\ AudioQuiet /\ PopupQuiet
    /\ PlayerConstructed /\ EntryQuiet /\ ExtractorQuiet /\ MailboxEmpty
SpecRelay == InitRelay /\ [][NextRelay]_vars

InitAudio ==
    /\ GeminiQuiet
    /\ RelayStarted
    /\ AudioEnvironment
    /\ AudioConstructed \/ AudioWarm
    /\ PopupQuiet
    /\ PlayerConstructed
    /\ EntryQuiet
    /\ ExtractorQuiet /\ MailboxEmpty
SpecAudio == InitAudio /\ [][NextAudio]_vars

InitPopup ==
    /\ GeminiQuiet
    /\ RelayStarted
    /\ PopupEnvironment
    /\ AudioConstructed /\ syncStore = {} /\ storedService = ""
    /\ PopupReady
    /\ PlayerConstructed
    /\ EntryQuiet
    /\ ExtractorQuiet /\ MailboxEmpty
SpecPopup == InitPopup /\ [][NextPopup]_vars
\* every asynchronous step of a transform completes: a sent message gets its
\* callback (with a response or with lastError), generateAudio settles and a
\* storage write calls back.  The popup starts with an empty stored history,
\* with and without the saveHistory setting
InitPopupFair ==
    /\ InitPopup
    /\ settings \in {NoSettings, [saveHistory |-> TRUE, maxHistory |-> <<defaultMaxHistory>>]}
    /\ rhymeHistory = StoredHistory(0)
SpecPopupFair ==
    /\ InitPopupFair /\ [][NextPopup]_vars
    /\ WF_vars(ExtractResponse)
    /\ WF_vars(RhymeResponse)
    /\ WF_vars(AudioSettles)
    /\ WF_vars(HistoryStored)
    /\ WF_vars(SaveStored)

InitPlayer ==
    /\ GeminiQuiet /\ RelayStarted /\ AudioQuiet /\ PopupQuiet
    /\ PlayerConstructed /\ EntryQuiet /\ ExtractorQuiet /\ MailboxEmpty
SpecPlayer == InitPlayer /\ [][NextPlayer]_vars

SpecEntry == InitPopup /\ [][NextEntry]_vars

InitExtractor ==
    /\ GeminiQuiet /\ RelayStarted /\ AudioQuiet /\ PopupQuiet /\ PlayerConstructed /\ EntryQuiet
    /\ ExtractorLoaded
    /\ document \in ExtractorPages
    /\ MailboxEmpty
SpecExtractor == InitExtractor /\ [][NextExtractor]_vars

InitMessages ==
    /\ GeminiQuiet /\ RelayStarted /\ AudioQuiet /\ PopupQuiet
    /\ PlayerConstructed /\ EntryQuiet /\ ExtractorQuiet /\ MailboxEmpty
SpecMessages == InitMessages /\ [][NextMessages]_vars
\* every message in flight is eventually handled: the browser delivers it and
\* calls back
SpecMessagesFair == SpecMessages /\ WF_vars(NextMessages)

(***************************************************************************)
(* Claims about GeminiAPI (checked under SpecGemini)                       *)
(***************************************************************************)
AllThrow(n) == Len(outcomes) >= n /\ \A i \in 1..n : AttemptThrows(outcomes[i])

\* C1: one call of callGeminiAPI (maxRetries = 3) issues at most 3 fetches; a
\* fetch is issued only when every earlier one has settled as a failure; and
\* when the 3rd fetch fails, no retry is scheduled: the call is over and that
\* failure is what the caller (the catch of transformToRhyme) reports.
C1_BoundedRetry ==
    /\ fetchCount <= 3
    /\ fetchCount = Len(outcomes) + (IF gpc = "fetch" THEN 1 ELSE 0)
    /\ \A i \in 1..Len(outcomes) : i < fetchCount => AttemptThrows(outcomes[i])
    /\ AllThrow(3) =>
          /\ gpc = "done"
          /\ gResult.kind = "returned"
          /\ gResult.success = FALSE
          /\ gResult.error = AttemptError(outcomes[3])

C1_Witness == AllThrow(3) /\ gpc = "done" /\ fetchCount = 3

\* C2: with a key configured, a backend failing on attempts 1 and 2 and
\* answering on attempt 3 gives success:true; a backend failing on attempts 1,
\* 2 and 3 gives success:false with a non-empty fallback string; in both cases
\* transformToRhyme returns a value and does not throw.
C2_RetryResult ==
    /\ (AllThrow(2) /\ Len(outcomes) = 3 /\ outcomes[3] = "ok") =>
          /\ gpc = "done"
          /\ gResult.kind = "returned"
          /\ gResult.success = TRUE
    /\ AllThrow(3) =>
          /\ gpc = "done"
          /\ gResult.kind = "returned"
          /\ gResult.success = FALSE
          /\ Len(gResult.fallback) > 0

C2_Witness ==
    /\ AllThrow(3)
    /\ gResult.kind = "returned"
    /\ gResult.success = FALSE
    /\ gArgs.content = StringContent(TextThree)


\* an OK response without candidates[0].content.parts[0].text
Malformed == {"noCandidates", "noParts", "noText"}

\* C19: a malformed response, an OK response missing any of the fields
\* candidates[0].content.parts[0].text, is a failure of its attempt, retried
\* like a network error, and never ends in success:true.
C19_MalformedIsFailure ==
    /\ (gResult.kind = "returned" /\ gResult.success) =>
           outcomes[Len(outcomes)] \notin Malformed
    /\ \A i \in DOMAIN outcomes :
           (outcomes[i] \in Malformed /\ i = Len(outcomes)) =>
               \/ gpc = "delay" /\ Len(delays) = i
               \/ gpc = "fetch" /\ Len(delays) = i /\ fetchCount = i + 1
               \/ /\ i = maxRetries
                  /\ gpc = "done"
                  /\ gResult.kind = "returned"
                  /\ ~gResult.success

\* C19: an OK response without the text field ended the call in success:true
\* at its first attempt
C19_Witness ==
    /\ gpc = "done"
    /\ outcomes = <<"noText">>
    /\ gResult.kind = "returned"
    /\ gResult.success
    /\ gResult.raw = "undefined"

\* C20: configuration errors are not retried: no request at all for a missing
\* key, exactly one for a key the endpoint rejects, and the error is surfaced
\* without a backoff.
C20_ConfigNotRetried ==
    /\ (gpc = "done" /\ outcomes = <<>> /\ apiKey = "") =>
           /\ fetchCount = 0
           /\ delays = <<>>
           /\ gResult.kind = "returned" => ~gResult.success
    /\ (outcomes # <<>> /\ outcomes[1] = "keyRejected") =>
           /\ fetchCount = 1
           /\ delays = <<>>
           /\ gpc = "done"
           /\ gResult.kind = "returned" => ~gResult.success

\* C20: the endpoint rejected the key three times, after backoffs of one and
\* two seconds, before the error was returned
C20_Witness ==
    /\ gpc = "done"
    /\ outcomes = <<"keyRejected", "keyRejected", "keyRejected">>
    /\ fetchCount = 3
    /\ delays = <<retryDelay, 2 * retryDelay>>
    /\ gResult.kind = "returned"
    /\ ~gResult.success

(***************************************************************************)
(* Claims about the proxy relay (checked under SpecRelay)                  *)
(***************************************************************************)
\* C3: every response the background script sends to a generateRhyme message
\* is success:true and carries a non-empty rhyme, whatever the request data
\* and whatever the proxy did.
C3_AlwaysFallback ==
    \A m \in 1..MaxMessages :
        msgs[m].pc = "responded" =>
            /\ msgs[m].response.success
            /\ Len(msgs[m].response.rhyme) > 0

(***************************************************************************)
(* Claims about AudioGenerator (checked under SpecAudio)                   *)
(***************************************************************************)
\* a step of generateAudio answered from the cache
CacheHitStep == requests' = requests + 1 /\ calls' = calls
\* a step that inserts a key the full cache does not hold
FullInsertStep ==
    /\ Len(audioCache) = maxCacheSize
    /\ audioCache' # audioCache
    /\ lastCacheOp'.op = "insert"
    /\ ~CacheHas(audioCache, lastCacheOp'.key)

\* C5: in every reachable state of an AudioGenerator, whatever the sequence
\* and interleaving of generateAudio calls, the audio cache holds at most
\* maxCacheSize (50) entries.
C5_CacheBounded == Len(audioCache) <= maxCacheSize

\* a full cache right after an insert, with another call still in flight
C5_Witness ==
    /\ Len(audioCache) = maxCacheSize
    /\ lastCacheOp.op = "insert"
    /\ \E c \in 1..MaxCallers : calls[c].pc # "idle"

\* C6: eviction is FIFO by insertion order: inserting a new key into a full
\* cache removes exactly the oldest-inserted entry and appends the new one
\* behind the others, which keep their order; a cache hit leaves the entries
\* and their order unchanged.
C6_Fifo ==
    [][ /\ FullInsertStep =>
             /\ Len(audioCache') = maxCacheSize
             /\ SubSeq(audioCache', 1, maxCacheSize - 1) = Tail(audioCache)
             /\ audioCache'[maxCacheSize].key = lastCacheOp'.key
             /\ lastCacheOp'.evicted = audioCache[1].key
        /\ CacheHitStep => audioCache' = audioCache ]_vars

\* the 51st distinct key went in and the oldest-inserted key (that of input 1,
\* which a request had hit before) is gone
C6_Witness ==
    /\ lastCacheOp.op = "insert"
    /\ lastCacheOp.evicted = KeyAt(1)
    /\ ~CacheHas(audioCache, KeyAt(1))
    /\ audioCache[Len(audioCache)].key = lastCacheOp.key
    /\ KeyAt(1) \in hitKeys

\* C11 as stated: generateAudio never rejects.
C11_NeverRejects == lastReturn.kind # "rejected"

\* C11, amended: generateAudio rejects only where speech synthesis is missing,
\* after the local backend was tried as the fallback; wherever speech synthesis
\* exists it never rejects, and a call whose dispatched backend failed ends in
\* an AudioResult of the local synthesis backend.
C11_RejectsOnlyWithoutSpeech ==
    /\ lastReturn.kind = "rejected" =>
          /\ ~speechSupported
          /\ lastReturn.invoked[Len(lastReturn.invoked)] = "browser"
    /\ (lastReturn.kind = "result" /\ Len(lastReturn.invoked) > 1) =>
          lastReturn.value.service = "browser"

\* a remote backend failed and the call returned the local backend's result
C11_Witness ==
    /\ lastReturn.kind = "result"
    /\ Len(lastReturn.invoked) = 2
    /\ IsRemote(lastReturn.invoked[1])
    /\ lastReturn.value.service = "browser"
    /\ lastReturn.value.success

\* C12: a call whose dispatched backend fails invokes the local synthesis
\* backend exactly once more (also when the dispatched backend was the local
\* one); when that fallback fails the call rejects without another attempt.
\* So the backends a call invoked are none (cache hit), the dispatched one, or
\* the dispatched one and then "browser"; a result after one invocation is the
\* dispatched backend's, and a rejection comes after exactly two.
C12_OneFallback ==
    /\ \A c \in 1..MaxCallers :
          /\ Len(calls[c].invoked) <= 2
          /\ calls[c].pc = "fallback" <=> Len(calls[c].invoked) = 2
          /\ Len(calls[c].invoked) = 2 => calls[c].invoked[2] = "browser"
    /\ lastReturn.kind = "rejected" =>
          /\ Len(lastReturn.invoked) = 2
          /\ lastReturn.invoked[2] = "browser"
    /\ lastReturn.kind = "result" =>
          /\ Len(lastReturn.invoked) <= 2
          /\ Len(lastReturn.invoked) = 0 <=> lastReturn.fromCache
          /\ Len(lastReturn.invoked) = 1 => lastReturn.value.service = lastReturn.invoked[1]
          /\ Len(lastReturn.invoked) = 2 => lastReturn.invoked[2] = "browser"

\* the local backend was dispatched, failed, was tried once more and failed
C12_Witness ==
    /\ lastReturn.kind = "rejected"
    /\ lastReturn.invoked = <<"browser", "browser">>

\* C15: every entry point of the popup catches and reports: no click handler
\* (play, copy, share, save, clear history, save API key) ends in an uncaught
\* exception or an unhandled rejection.
C15_EveryEntryPointCatches == unhandled = {}

\* C15: the play button was clicked in a popup that has its player, and the
\* status line still shows what it showed before
C15_Witness ==
    /\ audioPlayer.present
    /\ "handlePlay" \in unhandled
    /\ status = "Ready to transform pages!"

\* C22: the backend dispatch follows the configured service: with elevenlabs,
\* google or azure persisted as audioService, a generateAudio request of a
\* generator used as the popup uses it (constructed, then generateAudio, with
\* no setService or getCurrentService call) is dispatched to that backend.
C22_DispatchFollowsSetting ==
    \A c \in 1..MaxCallers :
        (calls[c].pc # "idle" /\ serviceChanges = 0 /\ IsRemote(storedService)) =>
            calls[c].invoked[1] = storedService

\* C22: google is the persisted service and its key is stored, and a request
\* of a generator nobody told the service was answered by local synthesis alone
C22_Witness ==
    /\ storedService = "google"
    /\ syncStore = SettingsCredentials
    /\ serviceChanges = 0
    /\ lastReturn.kind = "result"
    /\ lastReturn.invoked = <<"browser">>

\* C24: in every AudioResult the generator returns or caches, exactly one of
\* audioUrl and utterance is present, and playDirectly is true exactly when
\* it is the utterance.
C24_UrlXorUtterance ==
    /\ lastReturn.kind = "result" =>
          /\ lastReturn.value.audioUrl # lastReturn.value.utterance
          /\ lastReturn.value.playDirectly = lastReturn.value.utterance
    /\ \A i \in DOMAIN audioCache :
          /\ audioCache[i].value.audioUrl # audioCache[i].value.utterance
          /\ audioCache[i].value.playDirectly = audioCache[i].value.utterance

\* C24: the recording failed and the result for direct playback was returned
\* and cached
C24_Witness ==
    /\ lastReturn.kind = "result"
    /\ lastReturn.value.utterance
    /\ lastReturn.value.playDirectly
    /\ ~lastReturn.value.audioUrl
    /\ \E i \in DOMAIN audioCache : audioCache[i].value = lastReturn.value

\* C27: only a result of the dispatched backend goes into the cache: the step
\* in which the fallback gives the result of a call leaves the cache as it
\* was, so the key of the call is not cached by it.
C27_FallbackNotCached ==
    [][\A c \in 1..MaxCallers :
           (calls[c].pc = "fallback" /\ calls'[c].pc = "idle") =>
               /\ audioCache' = audioCache
               /\ lastCacheOp' = lastCacheOp]_vars

\* C27: a remote backend failed, the fallback gave the result, and the key of
\* the request is not in the cache
C27_Witness ==
    /\ lastReturn.kind = "result"
    /\ Len(lastReturn.invoked) = 2
    /\ IsRemote(lastReturn.invoked[1])
    /\ lastReturn.value.service = "browser"
    /\ ~CacheHas(audioCache, KeyAt(lastReturn.input))

\* C29: every credential the settings page persists is readable by the
\* generator: with the keys saveSettings wrote in the store, the credential
\* lookup of a call dispatched to a provider finds them and goes on to the
\* request.
C29_SavedCredentialsReadable ==
    [][\A c \in 1..MaxCallers :
           (calls[c].pc = "credentials" /\ calls'[c] # calls[c]
                /\ syncStore = SettingsCredentials) =>
               calls'[c].pc = "fetch"]_vars

\* C29: what saveSettings wrote is in the store, and the lookup of a call
\* dispatched to ElevenLabs or Azure is about to report "not configured"
C29_Witness ==
    /\ syncStore = SettingsCredentials
    /\ \E c \in 1..MaxCallers :
           /\ calls[c].pc = "credentials"
           /\ calls[c].invoked[1] \in {"elevenlabs", "azure"}
           /\ ~Configured(calls[c].invoked[1], syncStore)

(***************************************************************************)
(* Claims about AudioPlayer (checked under SpecPlayer)                     *)
(***************************************************************************)
\* a loadTrack call: only loadTrack writes this.currentTrack
LoadStep == currentTrack' # currentTrack
\* the handle has not been played since it was installed or since it ended
Fresh(h) ==
    /\ h # 0
    /\ h \notin sounding
    /\ h \notin pendingPlay
    /\ \A e \in events : e[1] # h

\* C13 (the part that holds): the step of a loadTrack that returns true ends
\* with isPlaying = false, the prior handle neither playing nor about to, and
\* the new handle installed.
C13_StopsPrior ==
    [][(LoadStep /\ lastLoad' = "true") =>
          /\ isPlaying' = FALSE
          /\ currentAudio \notin sounding'
          /\ currentAudio \notin pendingPlay'
          /\ currentAudio' = Len(handles')
          /\ currentAudio' # currentAudio]_vars

\* C13: loadTrack goes through idle: after a loadTrack that returned true, and
\* for as long as the handle it installed has not been played, the player is
\* not playing and no other handle is, also when the start and end events of
\* the prior handle are handled after the load.
C13_LoadedNotPlaying ==
    (lastLoad = "true" /\ Fresh(currentAudio)) =>
        /\ ~isPlaying
        /\ sounding = {}

\* C13: a loaded track nobody played while the player says it is playing
C13_Witness ==
    /\ lastLoad = "true"
    /\ currentAudio = 2
    /\ Fresh(currentAudio)
    /\ sounding = {}
    /\ isPlaying

\* C14: seek is a no-op when no track is loaded or the current handle is an
\* utterance: position, isPlaying, currentTrack, volume and playbackRate (and
\* the handle itself) are unchanged by it.
C14_SeekNoOp ==
    [][(playerOps' # playerOps /\ lastOp' = "seek"
            /\ (currentAudio = 0 \/ IsUtterance(currentAudio))) =>
          UNCHANGED <<position, isPlaying, currentTrack, volume, playbackRate, currentAudio,
                      handles, sounding>>]_vars

\* C14: a seek was clicked on an utterance that is being spoken, after the
\* volume had been changed
C14_Witness ==
    /\ lastOp = "seek"
    /\ IsUtterance(currentAudio)
    /\ isPlaying
    /\ currentAudio \in sounding
    /\ volume # 80

ContentOf(i) == responses[i].data.content
\* the first strategy of the chain whose result is not null
FirstNonNull(p) ==
    IF ~p.structural.null THEN "structure"
    ELSE IF ~p.readable.null THEN "readability"
    ELSE IF ~p.dense.null THEN "density"
    ELSE "fallback"
\* the first strategy of the chain whose result is a text with characters in it
FirstNonEmpty(p) ==
    IF ~p.structural.null /\ extractTextFromElement(p.structural.text) # <<>> THEN "structure"
    ELSE IF ~p.readable.null /\ extractTextFromElement(p.readable.text) # <<>>
    THEN "readability"
    ELSE IF ~p.dense.null /\ extractTextFromElement(p.dense.text) # <<>> THEN "density"
    ELSE "fallback"

\* C16: for every page extractContent returns a result, it never throws, and
\* the content it returns has at most 3003 characters, whichever strategy
\* gave the text.
C16_BoundedContent ==
    \A i \in DOMAIN responses :
        /\ responses[i].success
        /\ ~responses[i].data.escaped
        /\ TextLength(ContentOf(i)) <= maxContentLength + 3

\* C16: a content of exactly 3003 characters was returned
C16_Witness ==
    \E i \in DOMAIN responses :
        /\ TextLength(ContentOf(i)) = maxContentLength + 3
        /\ responses[i].data.strategy = "structure"

\* C17 (as stated): the content of every result has at most 3000 characters.
C17_Capped ==
    \A i \in DOMAIN responses : TextLength(ContentOf(i)) <= maxContentLength

\* C17 (amended): the content of every result is at most 3000 characters of
\* the page text, followed by the three dots of the ellipsis when the text
\* was cut: at most 3003 characters.
C17_CappedBeforeEllipsis ==
    \A i \in DOMAIN responses :
        LET c == ContentOf(i)
        IN  \/ TextLength(c) <= maxContentLength
            \/ /\ c[Len(c)] = Run(".", 3)
               /\ TextLength(SubSeq(c, 1, Len(c) - 1)) <= maxContentLength

\* C17: a text was cut, and its result has 3002 characters: 2999 of the page,
\* after the trim, and the ellipsis
C17_Witness ==
    \E i \in DOMAIN responses :
        /\ ~responses[i].data.caught
        /\ TextLength(ContentOf(i)) = maxContentLength + 2

\* C18 (as stated): the first strategy whose result is not null gives the
\* content, an empty string included.
C18_FirstNonNullWins ==
    \A i \in DOMAIN responses :
        ~responses[i].data.caught =>
            responses[i].data.strategy = FirstNonNull(responses[i].page)

\* C18 (amended): the strategies form an ordered chain (structure,
\* readability, density, fallback) in which the first result that is neither
\* null nor the empty string gives the content; an empty string is passed
\* over like null, and the fallback is used when no other strategy gives text.
C18_FirstNonEmptyWins ==
    \A i \in DOMAIN responses :
        LET p == responses[i].page
            used == responses[i].data.strategy
        IN  /\ responses[i].data.caught => FirstNonEmpty(p) = "fallback"
            /\ ~responses[i].data.caught =>
                  /\ used = FirstNonEmpty(p)
                  /\ used = "structure" =>
                        ContentOf(i) = cleanContent(extractByStructure(p))
                  /\ used = "readability" =>
                        ContentOf(i) = cleanContent(extractByReadability(p))
                  /\ used = "density" =>
                        ContentOf(i) = cleanContent(extractByTextDensity(p))

\* C18: an element matched by the structural strategy had no text, and the
\* text of the readability strategy was returned
C18_Witness ==
    \E i \in DOMAIN responses :
        /\ ~responses[i].page.structural.null
        /\ extractByStructure(responses[i].page).text = <<>>
        /\ responses[i].data.strategy = "readability"
        /\ ContentOf(i) # <<>>

(***************************************************************************)
(* Claims about the cross-context messages (checked under                  *)
(* SpecMessagesFair)                                                       *)
(***************************************************************************)
\* C21: each of the actions extractContent, generateRhyme, checkApiKey and
\* testApiKey is a request/response pair: every request the popup sent
\* eventually gets exactly one response object that carries a success field.
C21_EveryRequestAnswered ==
    \A s \in 1..MaxSent :
        (mbox[s].pc = "sent") ~>
            (/\ mbox[s].pc = "done"
             /\ mbox[s].calledBack = 1
             /\ mbox[s].response \in {Answer(TRUE), Answer(FALSE)})

\* C21: the callback of a testApiKey request ran once, with undefined
C21_Witness ==
    \E s \in 1..MaxSent :
        /\ mbox[s].action = "testApiKey"
        /\ mbox[s].pc = "done"
        /\ mbox[s].calledBack = 1
        /\ mbox[s].response = Undefined

\* C21 (the part that holds): the callback of every request runs, exactly once
C21_CalledBackOnce ==
    \A s \in 1..MaxSent :
        (mbox[s].pc = "sent") ~> (mbox[s].pc = "done" /\ mbox[s].calledBack = 1)

(***************************************************************************)
(* Claims about RhymeTimePopup (checked under SpecPopup)                   *)
(***************************************************************************)
InFlight == {s \in 1..MaxInFlight : transforms[s].pc # "idle"}
SaveStep == now' # now
AudioFailures == {"rejected", "loadFailed", "loadRejected"}

\* C4: requesting audio for the same (text, style, gender) twice performs
\* exactly one synthesis backend call: the second request is answered from
\* the audio cache.
C4_SecondFromCache ==
    \A r \in Rhymes : backendUse[r].requests >= 2 => backendUse[r].backend = 1

\* C7: after every saveToHistory the history list, in memory and as written to
\* storage, has at most maxHistory items (25 when the setting is absent or
\* zero), whatever its length was before.
C7_HistoryCapped ==
    [][ SaveStep =>
          /\ rhymeHistory' = history'
          /\ Len(history') <=
               (IF settings.maxHistory = <<>> \/ settings.maxHistory[1] = 0
                THEN defaultMaxHistory ELSE settings.maxHistory[1]) ]_vars

\* C8: with a maximum of m >= 1 items (25 by default) a save puts the new item
\* first and keeps the newest m - 1 of the items before it in their order: a
\* save into a list of m items leaves m items, the oldest one evicted.
C8_OldestEvicted ==
    [][ (SaveStep /\ maxHistoryOf(settings) >= 1) =>
          /\ Head(history').id = now
          /\ Len(history) < maxHistoryOf(settings) => Tail(history') = history
          /\ Len(history) >= maxHistoryOf(settings) =>
                /\ Len(history') = maxHistoryOf(settings)
                /\ Tail(history') = SubSeq(history, 1, maxHistoryOf(settings) - 1) ]_vars

\* 26 items were saved with the default maximum of 25: 25 are left, the newest
\* first and the oldest (id 1) gone
C8_Witness ==
    /\ maxHistoryOf(settings) = defaultMaxHistory
    /\ Len(history) = defaultMaxHistory
    /\ history[1].id = defaultMaxHistory + 1
    /\ history[defaultMaxHistory].id = 2
    /\ rhymeHistory = history

\* C9: at most one handleTransform is in flight, and a handleTransform call
\* made while isProcessing is true is refused without any effect: no message,
\* no audio, no change of history, status or content.
C9_OneTransform ==
    [][ /\ Cardinality(InFlight') <= 1
        /\ (clicks' = clicks + 1 /\ isProcessing) =>
              /\ refused' = refused + 1
              /\ UNCHANGED <<isProcessing, loading, currentContent, history, rhymeHistory,
                             audioPlayer, rhymeText, status, transforms, lastTransform,
                             callbacks, backendUse, now>> ]_vars

\* a call was refused while the transform started before it waits for audio
C9_Witness ==
    /\ refused = 1
    /\ clicks = 2
    /\ \E s \in 1..MaxInFlight : transforms[s].pc = "audio"

\* C10: the rhyme is on display while audio generation runs, and a transform
\* whose audio generation or track loading failed or rejected still ends as a
\* successful transform that saved to history when saveHistory is set.
C10_AudioNeverBlocks ==
    /\ \A s \in 1..MaxInFlight :
          transforms[s].pc \in {"audio", "save"} => rhymeText = transforms[s].rhyme
    /\ lastTransform.audio \in AudioFailures =>
          /\ lastTransform.result = "ok"
          /\ lastTransform.saved = settings.saveHistory

\* generateAudio rejected (no speech synthesis), the transform completed and
\* its rhyme is the newest history item
C10_Witness ==
    /\ lastTransform.audio = "rejected"
    /\ lastTransform.result = "ok"
    /\ lastTransform.saved
    /\ history # <<>>
    /\ history[1].rhyme = lastTransform.rhyme
    /\ status = "Ready! Your rhyme is complete."

\* C28: the popup reads stored history at initialisation only and writes its
\* whole list at every save: a clear by the settings page leaves the popup's
\* list as it was, and after every saveToHistory stored history equals the
\* popup's list, the new item first and then the items the popup held (all of
\* them while the list is below its maximum), whatever storage held before.
C28_SaveWritesWholeList ==
    [][/\ (settingsClears' # settingsClears) =>
              /\ rhymeHistory' = <<>>
              /\ history' = history
       /\ SaveStep =>
              /\ rhymeHistory' = history'
              /\ \E r \in Rhymes :
                     history' = Limit(unshift(history, HistoryItem(now, r)), settings)
              /\ (Len(history) < maxHistoryOf(settings)) => Tail(history') = history]_vars

\* C28: the settings page cleared the stored history of three items, and a
\* save of the popup put the three items and the new one back
C28_Witness ==
    /\ settingsClears = 1
    /\ Len(history) = 4
    /\ history[1].id = 4
    /\ rhymeHistory = history

\* the steps of a transform in the order of the spec: extraction, rhyme
\* generation, audio generation with the hand-over to the player, history save
StepRank(pc) ==
    CASE pc = "idle" -> 0
      [] pc = "extract" -> 1
      [] pc = "rhyme" -> 2
      [] pc \in {"audio", "cached"} -> 3
      [] pc = "save" -> 4
\* the transform in slot s ends its step pc in this step
Leaves(s, pc) == transforms[s].pc = pc /\ transforms'[s].pc # pc

\* C23: within one transform the steps occur in the order extraction, rhyme
\* generation, audio generation, hand-over to the player, history save: a
\* transform starts with the extraction, a step starts only when the step
\* before it has completed, and no step starts twice; the rhyme is displayed
\* when the rhyme step completes, the player gets its track when the audio step
\* completes, and the history is written only after that.
C23_StepsInOrder ==
    [][/\ \A s \in 1..MaxInFlight :
              /\ Leaves(s, "idle") => transforms'[s].pc = "extract"
              /\ (~Leaves(s, "idle") /\ transforms'[s].pc # transforms[s].pc) =>
                    \/ transforms'[s].pc = "idle"
                    \/ StepRank(transforms'[s].pc) > StepRank(transforms[s].pc)
       /\ (clicks' # clicks \/ \E s \in 1..MaxInFlight : Leaves(s, "extract")) =>
              UNCHANGED <<rhymeText, audioPlayer, history, rhymeHistory, backendUse>>
       /\ rhymeText' # rhymeText => \E s \in 1..MaxInFlight : Leaves(s, "rhyme")
       /\ backendUse' # backendUse =>
              \E s \in 1..MaxInFlight : Leaves(s, "rhyme") \/ Leaves(s, "audio")
       /\ audioPlayer' # audioPlayer => \E s \in 1..MaxInFlight : Leaves(s, "audio")
       /\ (SaveStep /\ saveClicks' = saveClicks) =>
              \E s \in 1..MaxInFlight :
                  /\ transforms[s].pc \in {"rhyme", "audio"}
                  /\ transforms'[s].pc = "save"
                  /\ rhymeText' = transforms'[s].rhyme
                  /\ history' # <<>> => Head(history').rhyme = rhymeText']_vars

\* C23: a transform went through all five steps: its rhyme is on display, is
\* the player's track and is the newest item of the stored history
C23_Witness ==
    /\ lastTransform.result = "ok"
    /\ lastTransform.audio = "loaded"
    /\ lastTransform.saved
    /\ rhymeText = lastTransform.rhyme
    /\ audioPlayer.track = lastTransform.rhyme
    /\ rhymeHistory # <<>>
    /\ Head(rhymeHistory).rhyme = lastTransform.rhyme

\* C26: a transform whose extraction or rhyme response is missing or has
\* success: false stops at that step: a transform that is past a step got a
\* successful response in it, and the step in which a transform fails in the
\* extraction or the rhyme step displays no rhyme, starts no audio generation,
\* leaves the player's track, the history list and stored history as they
\* were, and queues no write.
C26_FailedStepStops ==
    [][/\ \A s \in 1..MaxInFlight :
              transforms'[s].pc \in {"rhyme", "audio", "cached", "save"} =>
                  transforms'[s].got = "ok"
       /\ \A s \in 1..MaxInFlight :
              (/\ transforms[s].pc \in {"extract", "rhyme"}
               /\ transforms'[s].pc = "idle"
               /\ lastTransform'.result = "failed") =>
                  /\ lastTransform'.audio = "none"
                  /\ transforms'[s] = NoTransform
                  /\ UNCHANGED <<rhymeText, audioPlayer, history, rhymeHistory, callbacks,
                                 backendUse, now>>]_vars

\* C26: the extraction of a first transform succeeded and its rhyme was
\* displayed and stored; a second transform failed in its rhyme step, and the
\* display, the player and the history are those of the first
C26_Witness ==
    /\ lastTransform.result = "failed"
    /\ lastTransform.audio = "none"
    /\ lastTransform.rhyme = 0
    /\ currentContent = "page"
    /\ clicks = 2
    /\ rhymeText # 0
    /\ audioPlayer.track = rhymeText
    /\ Len(history) = 1
    /\ rhymeHistory = history
    /\ \A s \in 1..MaxInFlight : transforms[s].pc = "idle"

\* C25: whenever a transform ends, with a result or with any error,
\* isProcessing (and the loading display) is reset to false, and a transform
\* requested while isProcessing is false is accepted; when every asynchronous
\* step completes, every accepted transform ends and the popup does not stay
\* in the processing state.
C25_ProcessingReset ==
    /\ [][/\ \A s \in 1..MaxInFlight :
                 (transforms[s].pc # "idle" /\ transforms'[s].pc = "idle") =>
                     /\ isProcessing' = FALSE
                     /\ loading' = FALSE
          /\ (clicks' # clicks /\ ~isProcessing) =>
                 /\ refused' = refused
                 /\ \E s \in 1..MaxInFlight : Leaves(s, "idle")]_vars
    /\ \A s \in 1..MaxInFlight :
           (transforms[s].pc # "idle") ~> (transforms[s].pc = "idle" /\ ~isProcessing)
    /\ isProcessing ~> ~isProcessing

\* C25: a transform failed, the flag was reset, and the next click on the
\* transform button was accepted and its transform ended with a result
C25_Witness ==
    /\ clicks = 2
    /\ refused = 0
    /\ lastTransform.result = "ok"
    /\ status = "Ready! Your rhyme is complete."
    /\ ~isProcessing
    /\ ~loading
    /\ currentContent = "page"
    /\ \A s \in 1..MaxInFlight : transforms[s].pc = "idle"

====
